---- MODULE Spec2Model ----
(***************************************************************************)
(* A model of pennylane's QubitDevice (src/pennylane/_qubit_device.py) and *)
(* of the measurement processes it evaluates: the probability and wire     *)
(* permutation routines as operators, the execute / statistics pipeline as *)
(* a state machine.                                                        *)
(*                                                                         *)
(* Conventions.  Python lists and Wires objects are TLA+ sequences; a      *)
(* numeric vector (a numpy array indexed by a basis state) is a function   *)
(* on 0..len-1, so that index arithmetic reads as in the source.  Indices  *)
(* stored in sequences (device wire indices, argsort results) keep their   *)
(* 0-based Python value.  None is 0 for an optional integer and the empty  *)
(* sequence for a list-valued attribute.  A float quotient a / b is the    *)
(* pair <<a, b>>.  A probability vector holds integer weights; it is       *)
(* normalised by the sum of its weights.  In the execution pipeline a      *)
(* measurement result is described by its container kind, its axes, the    *)
(* indices picked from it and the sample buffer it was computed from.      *)
(***************************************************************************)
EXTENDS Integers, Sequences, FiniteSets, TLC

\* ------------------------------------------------------------------ bounds
\* number of device wires in the probability specification SpecProb
ProbWires == 3
\* largest integer shot count of a device
MaxShots == 2
\* number of device wires in the execution specification Spec
PipelineWires == 2
\* largest number of copies of a shot-vector entry
MaxCopies == 2
\* largest number of measurements of a circuit
MaxMeasurements == 2
\* number of execute calls in a behaviour
MaxCalls == 2
\* number of times the shots of the device are set after its construction
MaxShotChanges == 1
SampleShots == 4      \* shots of the devices whose sample buffer is read
\* largest number of wires of the basis conversions in SpecBasis
MaxBasisWires == 10
\* largest seed of a classical shadow measurement
MaxSeed == 1

\* None, for an optional integer (shots, bin_size); an optional sequence
\* (_samples, shot_range, _shot_vector) is None when it is <<>>
None == 0

VARIABLES
    wires,            \* self.wires: the device wire labels, in device order
    shots,            \* self.shots: None or the total number of shots
    _shot_vector,     \* self._shot_vector: <<>> (None) or the (shots, copies) entries
    _state,           \* the device state after apply: weight of every basis state
    _samples,         \* self._samples: <<>> (None) or one row of bits per shot
    _num_executions,  \* self._num_executions
    active_return,    \* qml.active_return(): the new return types are enabled
    call,             \* the last routine called on the device, with its result
    error,            \* the exception the last routine raised, or NoError
    log,              \* the calls the last routine made, in order
    pc,               \* where the device is: "idle", "statistics" (inside execute,
                      \* the circuit applied), "returned" (execute has ended)
    calls,            \* history: the number of execute calls made so far
    drawn_in,         \* history: the execute call that drew _samples (0: none)
    shot_changes,     \* history: how often the shots were set after construction
    tracker,          \* self.tracker: whether it is active, and the records it
                      \* made since the caller called the device
    batch,            \* batch_execute: the circuits given, the position in the
                      \* loop, the results so far and the calls made; or NoBatch
    shadow_run,       \* classical_shadow: the snapshot loop in progress, the
                      \* state of the global np.random generator and the
                      \* invocations that have returned; NoShadow outside SpecShadow
    tape              \* the tape the caller holds: its operations and its
                      \* measurement processes with their observables, objects
                      \* whose attributes a routine can write; NoTape outside SpecTape

vars == <<wires, shots, _shot_vector, _state, _samples, _num_executions,
          active_return, call, error, log, pc, calls, drawn_in, shot_changes,
          tracker, batch, shadow_run, tape>>

\* what the probability routines leave alone
pipelineVars == <<_shot_vector, _num_executions, active_return, error, log,
                  pc, calls, drawn_in, shot_changes, tracker, batch, shadow_run, tape>>

\* --------------------------------------------------------------- arithmetic
RECURSIVE Pow2(_)
Pow2(n) == IF n = 0 THEN 1 ELSE 2 * Pow2(n - 1)

\* f[0] + ... + f[n-1]
RECURSIVE SumTo(_, _)
SumTo(f, n) == IF n = 0 THEN 0 ELSE f[n - 1] + SumTo(f, n - 1)

\* the sum of f over the set S
RECURSIVE SumOver(_, _)
SumOver(S, f) ==
    IF S = {} THEN 0
    ELSE LET x == CHOOSE y \in S : TRUE IN f[x] + SumOver(S \ {x}, f)

\* samples @ powers_of_two, with powers_of_two = 2 ** arange(n)[::-1]
RECURSIVE BitsToIndex(_)
BitsToIndex(bits) ==
    IF bits = <<>> THEN 0
    ELSE 2 * BitsToIndex(SubSeq(bits, 1, Len(bits) - 1)) + bits[Len(bits)]

\* np.argsort of a sequence: the 0-based positions of x in ascending order
argsort(x) ==
    [r \in 1..Len(x) |->
        (CHOOSE i \in 1..Len(x) :
            Cardinality({j \in 1..Len(x) :
                x[j] < x[i] \/ (x[j] = x[i] /\ j < i)}) = r - 1) - 1]

_dot(a, b) == SumTo([i \in DOMAIN a |-> a[i] * b[i]], Cardinality(DOMAIN a))

\* ------------------------------------------------------------- wire mapper
\* Device.map_wires: the device index of every label
map_wires(w) ==
    [i \in 1..Len(w) |-> (CHOOSE d \in 1..Len(wires) : wires[d] = w[i]) - 1]

\* Device.order_wires: the labels of w in device order
order_wires(w) ==
    SelectSeq(wires, LAMBDA l : \E i \in 1..Len(w) : w[i] = l)

\* Wires.unique_wires([self.wires, w]): the device wires that are not in w
unique_wires(w) ==
    SelectSeq(wires, LAMBDA l : \A i \in 1..Len(w) : w[i] # l)

\* the wire order that sends the state's axes to the factors of the observable
_permute_wires_naive(observable) == observable.wires

_permute_wires(observable) ==
    LET ordered_obs_wire_lst == order_wires(observable.wires)
        mapped_wires == map_wires(observable.wires)
        permutation == argsort(mapped_wires)
    IN  [i \in 1..Len(permutation) |-> ordered_obs_wire_lst[permutation[i] + 1]]

\* --------------------------------------------------------- basis conversion
\* the bits (sample & (1 << k)) > 0 for k = 0..n-1, last axis as it is
states_to_binary_unreversed(sample, num_wires) ==
    [c \in 1..num_wires |-> (sample \div Pow2(c - 1)) % 2]

\* one sample of states_to_binary: (sample & (1 << k)) > 0 for k = 0..n-1,
\* last axis reversed
states_to_binary(sample, num_wires) ==
    LET powers_of_two == [k \in 0..(num_wires - 1) |-> Pow2(k)]
        masked == [k \in 0..(num_wires - 1) |->
                      ((sample \div powers_of_two[k]) % 2) * powers_of_two[k]]
    IN  [c \in 1..num_wires |-> IF masked[num_wires - c] > 0 THEN 1 ELSE 0]

\* the i-th tuple of itertools.product((0, 1), repeat=n)
RECURSIVE ProductRow(_, _)
ProductRow(i, n) ==
    IF n = 0 THEN <<>> ELSE Append(ProductRow(i \div 2, n - 1), i % 2)

generate_basis_states(num_wires) ==
    IF 2 < num_wires /\ num_wires < 32
    THEN [i \in 0..(Pow2(num_wires) - 1) |-> states_to_binary(i, num_wires)]
    ELSE [i \in 0..(Pow2(num_wires) - 1) |-> ProductRow(i, num_wires)]

\* ------------------------------------------------------------ probabilities
\* _reduce_sum over the inactive axes of prob reshaped to [2] * n, flattened
reduce_sum_flat(prob, n, inactive_device_wires) ==
    LET active == SelectSeq([i \in 1..n |-> i - 1],
                      LAMBDA a : \A q \in 1..Len(inactive_device_wires) :
                                     inactive_device_wires[q] # a)
        k == Len(active)
        kept(s) == BitsToIndex([c \in 1..k |-> (s \div Pow2(n - 1 - active[c])) % 2])
    IN  [j \in 0..(Pow2(k) - 1) |->
            SumOver({s \in 0..(Pow2(n) - 1) : kept(s) = j}, prob)]

\* the column order of the basis states in marginal_prob
marginal_prob_order(device_wires) == argsort(argsort(device_wires))

marginal_prob(prob, w) ==
    LET inactive_wires == unique_wires(w)
        device_wires == map_wires(w)
        inactive_device_wires == map_wires(inactive_wires)
        reduced == reduce_sum_flat(prob, Len(wires), inactive_device_wires)
        num_wires == Len(device_wires)
        order == marginal_prob_order(device_wires)
        basis_states == generate_basis_states(num_wires)
        permuted == [i \in DOMAIN basis_states |->
                        [c \in 1..num_wires |-> basis_states[i][order[c] + 1]]]
        perm == [i \in DOMAIN permuted |-> BitsToIndex(permuted[i])]
    IN  [i \in DOMAIN perm |-> reduced[perm[i]]]

\* the analytic device's analytic_probability: marginal_prob of the state
analytic_probability(w) ==
    IF w = <<>> THEN _state ELSE marginal_prob(_state, w)

\* samples[slice(s1, s2)] along the shots axis
PySlice(rows, shot_range) ==
    LET lo == IF shot_range[1] < Len(rows) THEN shot_range[1] ELSE Len(rows)
        hi == IF shot_range[2] < Len(rows) THEN shot_range[2] ELSE Len(rows)
    IN  SubSeq(rows, lo + 1, hi)

\* the outcomes np.random.choice(basis_states, shots, p=state_probability)
\* can return: any basis state of non-zero probability, for every shot
sample_basis_states(number_of_states, state_probability) ==
    [1..shots -> {b \in 0..(number_of_states - 1) : state_probability[b] > 0}]

generate_samples ==
    LET number_of_states == Pow2(Len(wires))
        rotated_prob == analytic_probability(<<>>)
    IN  {[t \in 1..shots |-> states_to_binary(samples[t], Len(wires))] :
            samples \in sample_basis_states(number_of_states, rotated_prob)}

\* the number of entries of indices equal to basis state i
CountOf(indices, i) == Cardinality({t \in 1..Len(indices) : indices[t] = i})

\* the counts divided by the shots of the device
_count_unbinned_samples_of_shots(indices, dim) ==
    [i \in 0..(dim - 1) |-> <<CountOf(indices, i), shots>>]

_count_unbinned_samples(indices, dim) ==
    [i \in 0..(dim - 1) |-> <<CountOf(indices, i), Len(indices)>>]

\* the bins taken with a stride of num_bins instead of one after the other
_count_binned_samples_strided(indices, dim, bin_size, num_bins) ==
    [i \in 0..(dim - 1) |->
        [b \in 0..(num_bins - 1) |->
            <<Cardinality({t \in 1..Len(indices) :
                              (t - 1) % num_bins = b /\ indices[t] = i}),
              bin_size>>]]

_count_binned_samples(indices, dim, bin_size, num_bins) ==
    [i \in 0..(dim - 1) |->
        [b \in 0..(num_bins - 1) |->
            <<CountOf(SubSeq(indices, b * bin_size + 1, (b + 1) * bin_size), i),
              bin_size>>]]

\* the counts of the batch_size rows of a broadcast buffer, row by row
\* (lines 1526-1530 and 1548-1556)
_count_unbinned_samples_batch(indices, batch_size, dim) ==
    [i \in 0..(batch_size - 1) |-> _count_unbinned_samples(indices[i], dim)]

_count_binned_samples_batch(indices, batch_size, dim, bin_size, num_bins) ==
    [i \in 0..(batch_size - 1) |->
        _count_binned_samples(indices[i], dim, bin_size, num_bins)]

\* np.ndim(self._samples) == 3: a buffer with a broadcast axis in front holds
\* its rows at the positions 0, ..., batch_size - 1
broadcast(samples) == 0 \in DOMAIN samples

\* self._samples[..., slice(*shot_range), device_wires] @ powers_of_two of a
\* buffer without broadcast axis (lines 1490-1499)
sample_indices(buffer, device_wires, shot_range) ==
    LET rows == IF shot_range = <<>> THEN buffer ELSE PySlice(buffer, shot_range)
    IN  [t \in 1..Len(rows) |->
            BitsToIndex([c \in 1..Len(device_wires) |-> rows[t][device_wires[c] + 1]])]

\* lines 1501-1512, indices and dim computed
estimate_probability_of(indices, batch_size, num_samples, dim, bin_size) ==
    IF bin_size # None
    THEN IF batch_size = None
         THEN _count_binned_samples(indices, dim, bin_size, num_samples \div bin_size)
         ELSE _count_binned_samples_batch(indices, batch_size, dim, bin_size,
                                          num_samples \div bin_size)
    ELSE IF batch_size = None
         THEN _count_unbinned_samples(indices, dim)
         ELSE _count_unbinned_samples_batch(indices, batch_size, dim)

estimate_probability_on(device_wires, shot_range, bin_size) ==
    IF broadcast(_samples)
    THEN estimate_probability_of(
             [i \in DOMAIN _samples |-> sample_indices(_samples[i], device_wires, shot_range)],
             Cardinality(DOMAIN _samples),
             Len(sample_indices(_samples[0], device_wires, shot_range)),
             Pow2(Len(device_wires)), bin_size)
    ELSE estimate_probability_of(
             sample_indices(_samples, device_wires, shot_range),
             None,
             Len(sample_indices(_samples, device_wires, shot_range)),
             Pow2(Len(device_wires)), bin_size)

estimate_probability(w, shot_range, bin_size) ==
    estimate_probability_on(map_wires(IF w = <<>> THEN wires ELSE w), shot_range, bin_size)

probability(w, shot_range, bin_size) ==
    IF shots = None
    THEN analytic_probability(IF w = <<>> THEN wires ELSE w)
    ELSE estimate_probability(IF w = <<>> THEN wires ELSE w, shot_range, bin_size)

\* ------------------------------------------------------------- observables
\* An observable is [name, wires, factors, parameters]: factors[c] is the
\* pair of eigenvalues of the c-th factor as written, parameters the bit
\* string of a Projector.
PauliZ_eigs == <<1, -1>>
Hermitian_eigs == <<1, 0>>

\* Tensor.eigvals: the Kronecker product of the factors' eigenvalues as written
eigvals(observable) ==
    LET n == Len(observable.factors)
        prod[c \in 0..n, i \in 0..(Pow2(n) - 1)] ==
            IF c = 0 THEN 1
            ELSE observable.factors[c][((i \div Pow2(n - c)) % 2) + 1] * prod[c - 1, i]
    IN  [i \in 0..(Pow2(n) - 1) |-> prod[n, i]]

\* int("".join(str(i) for i in observable.parameters[0]), 2)
ProjectorIdx(observable) == BitsToIndex(observable.parameters)

\* expval with shots=None, and the Projector branch
expval_analytic(observable) ==
    IF observable.name = "Projector"
    THEN probability(observable.wires, <<>>, None)[ProjectorIdx(observable)]
    ELSE LET permuted_wires == _permute_wires(observable)
             prob == probability(permuted_wires, <<>>, None)
         IN  _dot(prob, eigvals(observable))

\* The weights of prob sum to a total where the probabilities of the code sum
\* to 1: the expectation value is in units of 1 / total, the variance in units
\* of 1 / total^2.
var_analytic(observable) ==
    IF observable.name = "Projector"
    THEN LET probs == probability(observable.wires, <<>>, None)
             p == probs[ProjectorIdx(observable)]
         IN  SumTo(probs, Cardinality(DOMAIN probs)) * p - p * p
    ELSE LET permuted_wires == _permute_wires(observable)
             prob == probability(permuted_wires, <<>>, None)
             ev == eigvals(observable)
             sq == [i \in DOMAIN ev |-> ev[i] * ev[i]]
         IN  SumTo(prob, Cardinality(DOMAIN prob)) * _dot(prob, sq)
                 - _dot(prob, ev) * _dot(prob, ev)

\* ------------------------------------------- the probability specification
\* the device labels: 0..n-1, or custom labels whose order is not the
\* device order
CanonicalWires(n) == [i \in 1..n |-> i - 1]
CustomWires(n) == [i \in 1..n |-> 10 + n - i]

\* every non-empty sequence of distinct device wires
WireSeqs ==
    UNION {{w \in [1..k -> {wires[d] : d \in 1..Len(wires)}] :
               \A i, j \in 1..k : i # j => w[i] # w[j]} : k \in 1..Len(wires)}

\* a state with one or two basis states of non-zero weight
ProbStates(n) ==
    {[s \in 0..(Pow2(n) - 1) |->
         (IF s = a THEN 1 ELSE 0) + (IF s = (a + d) % Pow2(n) THEN 1 ELSE 0)] :
        a \in 0..(Pow2(n) - 1), d \in {0, 3}}

Observables ==
    UNION {
        {[name |-> IF Len(w) > 1 THEN "Tensor"
                   ELSE IF f[1] = PauliZ_eigs THEN "PauliZ" ELSE "Hermitian",
          wires |-> w, factors |-> f, parameters |-> <<>>] :
            f \in {g \in [1..Len(w) -> {PauliZ_eigs, Hermitian_eigs}] :
                      Cardinality({c \in 1..Len(w) : g[c] = Hermitian_eigs}) <= 1}}
        \cup
        {[name |-> "Projector", wires |-> w, factors |-> <<>>, parameters |-> b] :
            b \in {[c \in 1..Len(w) |-> 1], [c \in 1..Len(w) |-> c % 2]}}
        : w \in WireSeqs}

\* the shot_range / bin_size arguments a caller passes
ShotArgs ==
    {<<<<>>, None>>} \cup
    {<<<<0, shots>>, b>> : b \in {d \in 1..shots : shots % d = 0}}

NoCall == [op |-> "none", args |-> <<>>, res |-> <<>>]
\* no classical_shadow is running, none has returned; np_random is the state
\* of the global generator np.random
NoShadow ==
    [running |-> FALSE, obs |-> <<>>, circuit |-> <<>>, n_snapshots |-> 0,
     recipes |-> <<>>, outcomes |-> <<>>, t |-> 0, trace |-> <<>>,
     np_random |-> 0, done |-> <<>>]

\* no tape is held
NoTape == [operations |-> <<>>, measurements |-> <<>>]

\* no batch_execute is running
NoBatch == [running |-> FALSE, circuits |-> <<>>, i |-> 0, results |-> <<>>,
            trace |-> <<>>, start |-> 0]

NoError == [type |-> "none", in |-> "none", at |-> 0]

InitProb ==
    /\ wires \in {CanonicalWires(ProbWires), CustomWires(ProbWires)}
    /\ shots \in {None} \cup (1..MaxShots)
    /\ _shot_vector = <<>>
    /\ _state \in ProbStates(ProbWires)
    /\ _samples = <<>>
    /\ _num_executions = 0
    /\ active_return = FALSE
    /\ call = NoCall
    /\ error = NoError
    /\ log = <<>>
    /\ pc = "idle"
    /\ calls = 0
    /\ drawn_in = 0
    /\ shot_changes = 0
    /\ tracker = [active |-> FALSE, recorded |-> <<>>]
    /\ batch = NoBatch
    /\ shadow_run = NoShadow
    /\ tape = NoTape

\* execute, lines 391-392: self._samples = self.generate_samples()
ProbGenerateSamples ==
    /\ shots # None
    /\ _samples = <<>>
    /\ _samples' \in generate_samples
    /\ UNCHANGED <<wires, shots, _state, call, pipelineVars>>

CallMarginalProb ==
    /\ call = NoCall
    /\ \E w \in WireSeqs :
           call' = [op |-> "marginal_prob", args |-> w, res |-> marginal_prob(_state, w)]
    /\ UNCHANGED <<wires, shots, _state, _samples, pipelineVars>>

CallEstimateProbability ==
    /\ call = NoCall
    /\ _samples # <<>>
    /\ \E w \in WireSeqs, a \in ShotArgs :
           call' = [op |-> "estimate_probability", args |-> <<w, a[1], a[2]>>,
                    res |-> estimate_probability(w, a[1], a[2])]
    /\ UNCHANGED <<wires, shots, _state, _samples, pipelineVars>>

CallExpval ==
    /\ call = NoCall
    /\ shots = None
    /\ \E o \in Observables :
           call' = [op |-> "expval", args |-> o, res |-> expval_analytic(o)]
    /\ UNCHANGED <<wires, shots, _state, _samples, pipelineVars>>

CallVar ==
    /\ call = NoCall
    /\ shots = None
    /\ \E o \in Observables :
           call' = [op |-> "var", args |-> o, res |-> var_analytic(o)]
    /\ UNCHANGED <<wires, shots, _state, _samples, pipelineVars>>

NextProb ==
    \/ ProbGenerateSamples
    \/ CallMarginalProb
    \/ CallEstimateProbability
    \/ CallExpval
    \/ CallVar

SpecProb == InitProb /\ [][NextProb]_vars

\* ------------------------------------------------- claims on probabilities
\* the basis state spelled by the bits of the full basis state s on the
\* wires w[1], w[2], ... (first requested wire = most significant bit)
SpelledOn(s, w) ==
    LET n == Len(wires)
        d == map_wires(w)
    IN  BitsToIndex([c \in 1..Len(w) |-> (s \div Pow2(n - 1 - d[c])) % 2])

AllBasisStates == 0..(Pow2(Len(wires)) - 1)

\* C1: marginal_prob(prob, wires) has 2^|wires| entries, entry k is the sum
\* of prob over the full basis states whose bits on wires[0], wires[1], ...
\* spell k, and the entries sum to the sum of prob.
C1_MarginalProbFollowsRequestedOrder ==
    call.op = "marginal_prob" =>
        LET w == call.args
            dim == Pow2(Len(w))
        IN  /\ DOMAIN call.res = 0..(dim - 1)
            /\ \A k \in 0..(dim - 1) :
                   call.res[k] =
                       SumOver({s \in AllBasisStates : SpelledOn(s, w) = k}, _state)
            /\ SumTo(call.res, dim) = SumOver(AllBasisStates, _state)

\* the observable with its factors written in the order p
Reordered(o, p) ==
    [name |-> o.name,
     wires |-> [c \in 1..Len(o.wires) |-> o.wires[p[c]]],
     factors |-> [c \in 1..Len(o.wires) |-> o.factors[p[c]]],
     parameters |-> o.parameters]

Orders(k) == {p \in [1..k -> 1..k] : \A i, j \in 1..k : i # j => p[i] # p[j]}

\* C2: the analytic expectation value and variance of a tensor observable
\* do not depend on the order in which its factors are written.
C2_WireOrderInvariance ==
    (call.op \in {"expval", "var"} /\ call.args.name = "Tensor") =>
        \A p \in Orders(Len(call.args.wires)) :
            call.res = IF call.op = "expval"
                       THEN expval_analytic(Reordered(call.args, p))
                       ELSE var_analytic(Reordered(call.args, p))

\* C2 witness: a three-factor observable written in a cyclic order, with
\* different factors, whose expectation value is not zero
C2_Witness ==
    /\ call.op = "expval"
    /\ call.args.name = "Tensor"
    /\ map_wires(call.args.wires) = <<2, 0, 1>>
    /\ call.args.factors[1] # call.args.factors[2]
    /\ call.res # 0

\* the state is a computational basis state
IsBasisState == Cardinality({s \in AllBasisStates : _state[s] > 0}) = 1

\* C3: on a computational basis state, estimate_probability over the
\* generated samples equals the analytic marginal probability for the same
\* wires argument, for every wire sequence and every shot count.
C3_SamplingMatchesAnalytic ==
    (/\ call.op = "estimate_probability"
     /\ call.args[2] = <<>>
     /\ call.args[3] = None
     /\ IsBasisState) =>
        LET analytic == analytic_probability(call.args[1])
            total == SumTo(analytic, Pow2(Len(call.args[1])))
        IN  \A i \in DOMAIN analytic :
                call.res[i][1] * total = analytic[i] * call.res[i][2]

\* ------------------------------------------------- results in the pipeline
\* The pipeline describes a result instead of computing its numbers: kind is
\* the Python type, axes the shape of an array as a sequence of <<tag, size>>
\* (tags: "shot", "copy" for the bins of a shot-vector entry, "wire", "basis",
\* "part", "snapshot"), at the <<tag, index>> picked from it by indexing, of
\* what it was computed from ("samples", "state" or "None"), from the execute
\* call that drew those samples, m the position of its measurement in the
\* circuit and e the shot-vector entry it was computed for.
Value(kind, axes, of, items) ==
    [kind |-> kind, axes |-> axes, at |-> <<>>, of |-> of,
     from |-> IF of = "samples" THEN drawn_in ELSE 0,
     m |-> 0, e |-> 0, items |-> items]

ndarray(axes, of) == Value("ndarray", axes, of, <<>>)
NoValue == Value("none", <<>>, "None", <<>>)
PyNone == Value("NoneType", <<>>, "None", <<>>)

\* the outcome of a call: a value, or the exception raised
\* made is what the call did on its way that the caller can tell: the
\* warnings it emitted and the evaluation it chose, in order
Ok(v) == [ok |-> TRUE, val |-> v, err |-> NoError, made |-> <<>>]
Raise(type, in) ==
    [ok |-> FALSE, val |-> NoValue, err |-> [type |-> type, in |-> in, at |-> 0],
     made |-> <<>>]

\* the outcome r of a call that did name first
After(name, r) == [r EXCEPT !.made = <<name>> \o @]

Reverse(s) == [i \in 1..Len(s) |-> s[Len(s) + 1 - i]]

\* a.T of an array or of a numpy scalar
T(a) == [a EXCEPT !.axes = Reverse(a.axes)]

\* tuple(items)
pytuple(items) == Value("tuple", <<>>, "None", items)

\* np.squeeze / qml.math.squeeze of an array
squeeze(a) == [a EXCEPT !.axes = SelectSeq(a.axes, LAMBDA x : x[2] # 1)]

\* np.mean / np.var over the axis at position axis (-1 or -2) of an array
reduce_axis(a, axis) ==
    LET n == Len(a.axes)
        k == n + 1 + axis
    IN  IF k < 1 THEN Raise("AxisError", "expval")
        ELSE Ok([a EXCEPT !.axes = [i \in 1..(n - 1) |->
                                       IF i < k THEN a.axes[i] ELSE a.axes[i + 1]]])

\* a[idx]
index_first(a, idx) ==
    IF a.kind = "list"
    THEN IF idx < Len(a.items) THEN Ok(a.items[idx + 1])
         ELSE Raise("IndexError", "index")
    ELSE IF a.axes = <<>> \/ idx >= a.axes[1][2] THEN Raise("IndexError", "index")
    ELSE Ok([a EXCEPT !.axes = Tail(a.axes),
                      !.at = Append(a.at, <<a.axes[1][1], idx>>)])

\* a[:, idx]
index_second(a, idx) ==
    IF a.kind # "ndarray" THEN Raise("TypeError", "index")
    ELSE IF Len(a.axes) < 2 \/ idx >= a.axes[2][2] THEN Raise("IndexError", "index")
    ELSE Ok([a EXCEPT !.axes = <<a.axes[1]>> \o Tail(Tail(a.axes)),
                      !.at = Append(a.at, <<a.axes[2][1], idx>>)])

\* the same operations on the outcome r of a call: its exception leaves them
squeeze_result(r) == IF r.ok THEN Ok(squeeze(r.val)) ELSE r
reduce_result(r, axis) == IF r.ok THEN reduce_axis(r.val, axis) ELSE r
index_result(r, idx) == IF r.ok THEN index_first(r.val, idx) ELSE r

\* qml.math.unstack(a): the slices of a along its first axis
unstack(a) ==
    IF a.axes = <<>> THEN Raise("TypeError", "unstack")
    ELSE Ok([i \in 1..a.axes[1][2] |-> index_first(a, i - 1).val])

\* ------------------------------------------- measurements of the pipeline
\* A measurement process is [kind, obs, wires]: kind is its class, obs the
\* name of its observable or "none" (m.obs is None), wires its wire labels.
CountsMP(m) == m.kind = "counts"
SampleMP(m) == m.kind = "sample"
ProbabilityMP(m) == m.kind = "probs"

\* QuantumScript.is_sampled / all_sampled: return types Sample, Counts, AllCounts
is_sampled(circuit) ==
    \E i \in 1..Len(circuit.measurements) : circuit.measurements[i].kind \in {"sample", "counts"}
all_sampled(circuit) ==
    \A i \in 1..Len(circuit.measurements) : circuit.measurements[i].kind \in {"sample", "counts"}

\* Device._has_partitioned_shots
_has_partitioned_shots ==
    _shot_vector # <<>> /\ (Len(_shot_vector) > 1 \/ _shot_vector[1].copies > 1)

\* sample(): the samples of an observable, or their counts
sample_result(observable, shot_range, bin_size, counts) ==
    LET device_wires == map_wires(observable.wires)
        no_observable_provided == observable.obs = "none"
        subscripted == shot_range # <<>> \/ ~no_observable_provided
                           \/ Len(observable.wires) # 0
        sub_samples == IF shot_range = <<>> THEN _samples
                       ELSE PySlice(_samples, shot_range)
        R == Len(sub_samples)
        num_wires == IF Len(device_wires) > 0 THEN Len(device_wires) ELSE Len(wires)
        a_dict == Value("dict", <<>>, "samples", <<>>)
    IN  IF _samples = <<>>
        THEN \* self._samples is None
             IF subscripted THEN Raise("TypeError", "sample")
             ELSE IF bin_size = None
             THEN IF counts THEN Raise("TypeError", "_samples_to_counts") ELSE Ok(PyNone)
             ELSE Raise("AttributeError", "sample")
        ELSE IF bin_size = None
        THEN IF counts THEN Ok(a_dict)
             ELSE Ok(ndarray(IF no_observable_provided
                             THEN <<<<"shot", R>>, <<"wire", num_wires>>>>
                             ELSE <<<<"shot", R>>>>, "samples"))
        ELSE IF R % bin_size # 0 THEN Raise("ValueError", "sample")
        ELSE IF counts
        THEN Ok(Value("list", <<>>, "samples",
                      [c \in 1..(R \div bin_size) |->
                          [a_dict EXCEPT !.at = <<<<"copy", c - 1>>>>]]))
        ELSE Ok(ndarray(IF no_observable_provided
                        THEN <<<<"wire", num_wires>>, <<"shot", bin_size>>,
                               <<"copy", R \div bin_size>>>>
                        ELSE <<<<"shot", bin_size>>, <<"copy", R \div bin_size>>>>,
                        "samples"))

\* probability(): analytic_probability, or estimate_probability of the samples
probability_result(w, shot_range, bin_size) ==
    LET dim == Pow2(Len(IF w = <<>> THEN wires ELSE w))
        rows == IF shot_range = <<>> THEN _samples ELSE PySlice(_samples, shot_range)
    IN  IF shots = None THEN Ok(ndarray(<<<<"basis", dim>>>>, "state"))
        ELSE IF _samples = <<>> THEN Raise("TypeError", "estimate_probability")
        ELSE IF bin_size = None THEN Ok(ndarray(<<<<"basis", dim>>>>, "samples"))
        ELSE IF Len(rows) % bin_size # 0 THEN Raise("ValueError", "_count_binned_samples")
        ELSE Ok(ndarray(<<<<"basis", dim>>, <<"copy", Len(rows) \div bin_size>>>>,
                        "samples"))

\* expval() and var(): the Projector branch, the exact value, the estimate
estimate_result(observable, shot_range, bin_size) ==
    IF observable.obs = "Projector"
    THEN index_result(probability_result(observable.wires, shot_range, bin_size),
                      ProjectorIdx(observable))
    ELSE IF shots = None THEN Ok(ndarray(<<>>, "state"))
    ELSE squeeze_result(
             reduce_result(sample_result(observable, shot_range, bin_size, FALSE),
                           IF bin_size = None THEN -1 ELSE -2))

expval_result(observable, shot_range, bin_size) ==
    estimate_result(observable, shot_range, bin_size)

var_result(observable, shot_range, bin_size) ==
    estimate_result(observable, shot_range, bin_size)

\* capabilities().get("returns_state") of the device
returns_state == TRUE

\* access_state (lines 1125-1151) of a device whose capabilities have
\* returns_state as capability and whose state attribute is not None if
\* exposed: the state vector, or self.density_matrix(wires)
access_state_without_wires(capability, exposed, w) ==
    IF ~capability THEN Raise("QuantumFunctionError", "access_state")
    ELSE IF ~exposed THEN Raise("QuantumFunctionError", "access_state")
    ELSE Ok(ndarray(<<<<"basis", Pow2(Len(wires))>>>>, "state"))

access_state_on(capability, exposed, w) ==
    IF ~capability THEN Raise("QuantumFunctionError", "access_state")
    ELSE IF ~exposed THEN Raise("QuantumFunctionError", "access_state")
    ELSE IF w # <<>>
    THEN Ok(ndarray(<<<<"row", Pow2(Len(w))>>, <<"column", Pow2(Len(w))>>>>, "state"))
    ELSE Ok(ndarray(<<<<"basis", Pow2(Len(wires))>>>>, "state"))

\* the same of the devices of the pipeline, which return their state
access_state(w) == access_state_on(returns_state, TRUE, w)

\* classical_shadow(): bits and recipes of self.shots single-shot snapshots
classical_shadow(obs) ==
    IF shots = None THEN Raise("TypeError", "classical_shadow")
    ELSE Ok([ndarray(<<<<"part", 2>>, <<"snapshot", shots>>,
                      <<"wire", Len(obs.wires)>>>>, "samples")
               EXCEPT !.from = calls])

\* shadow.expval(obs, k=k) of the shadow that classical_shadow gave
shadow_expval_of(shadow) ==
    IF shadow.ok THEN Ok([ndarray(<<>>, "samples") EXCEPT !.from = calls]) ELSE shadow

shadow_expval(obs) == shadow_expval_of(classical_shadow(obs))

\* isinstance(m, ...) of the measurement processes that have no return type
SampleMeasurement(m) == m.kind \in {"customsample", "customboth"}
StateMeasurement(m) == m.kind \in {"customstate", "customboth"}
MeasurementTransform(m) == m.kind = "transform"

\* the attributes of the device that a method_name can name: the method that
\* the tests put on the device (test_measurements.py, lines 500 and 562)
DeviceMethods == {"test_method"}

\* getattr(self, m.method_name, False)
device_method_none(method_name) == FALSE

device_method(method_name) == method_name \in DeviceMethods

\* method(...) of the device, m.process, m.process_state and m.process_samples
method_result == After("method", Ok(Value("scalar", <<>>, "method", <<>>)))
process_result == After("process", Ok(Value("scalar", <<>>, "process", <<>>)))
process_state_result == After("process_state", Ok(Value("scalar", <<>>, "state", <<>>)))
process_samples_result ==
    IF _samples = <<>> THEN Raise("TypeError", "process_samples")
    ELSE After("process_samples", Ok(Value("scalar", <<>>, "samples", <<>>)))

\* _measure() (lines 876-919)
_measure(measurement, shot_range, bin_size) ==
    IF device_method(measurement.method_name) THEN method_result
    ELSE IF shots = None
    THEN IF StateMeasurement(measurement) THEN process_state_result
         ELSE Raise("ValueError", "_measure")
    ELSE IF StateMeasurement(measurement) THEN After("warn", process_state_result)
    ELSE process_samples_result

\* the analytic result without the warning
unwarned(result) == result

\* warnings.warn(...) when self.shots is not None, then the analytic result
warned(result) == IF shots # None THEN After("warn", result) ELSE result

\* the branch of a MeasurementTransform (lines 860-864 and 1074-1078)
transform_result(m) ==
    IF device_method(m.method_name) THEN method_result ELSE process_result

\* ------------------------------------------------------- statistics loops
Event(name, args) == [name |-> name, args |-> args]

\* the result v of the measurement at position i
OfMeasurement(v, i) ==
    [v EXCEPT !.m = i, !.items = [c \in DOMAIN v.items |-> [v.items[c] EXCEPT !.m = i]]]

\* the result v of the shot-vector entry n
OfEntry(v, n) ==
    [v EXCEPT !.e = n, !.items = [c \in DOMAIN v.items |-> [v.items[c] EXCEPT !.e = n]]]

ExclusiveKinds == {"state", "shadow", "shadowexpval"}

\* len(measurements) > 1, the check made for the measurements that cannot be
\* returned in combination with other return types
in_combination_unchecked(measurements) == FALSE

in_combination(measurements) == Len(measurements) > 1
ShadowKinds == {"shadow", "shadowexpval"}
EntropyKinds == {"vnentropy", "mutualinfo"}

\* one iteration of the loop of statistics (lines 745-872)
statistics_measure(measurements, i, shot_range, bin_size) ==
    LET m == measurements[i]
        obs == m
    IN  CASE m.kind = "expval" -> expval_result(obs, shot_range, bin_size)
          [] m.kind = "var" -> var_result(obs, shot_range, bin_size)
          [] m.kind = "sample" -> sample_result(obs, shot_range, bin_size, FALSE)
          [] m.kind = "counts" -> sample_result(obs, shot_range, bin_size, TRUE)
          [] m.kind = "probs" -> probability_result(obs.wires, shot_range, bin_size)
          [] m.kind = "state" ->
                IF in_combination(measurements)
                THEN Raise("QuantumFunctionError", "combination")
                ELSE warned(access_state(obs.wires))
          [] m.kind \in EntropyKinds ->
                IF wires # CanonicalWires(Len(wires))
                THEN Raise("QuantumFunctionError", "wire labels")
                ELSE IF _shot_vector # <<>>
                THEN Raise("NotImplementedError", "shot vector")
                ELSE warned(Ok(Value("scalar", <<>>, "state", <<>>)))
          [] m.kind = "shadow" ->
                IF in_combination(measurements)
                THEN Raise("QuantumFunctionError", "combination")
                ELSE classical_shadow(obs)
          [] m.kind = "shadowexpval" ->
                IF in_combination(measurements)
                THEN Raise("QuantumFunctionError", "combination")
                ELSE shadow_expval(obs)
          [] MeasurementTransform(m) -> transform_result(m)
          [] m.kind = "notvalid" -> Raise("QuantumFunctionError", "return type")
          [] OTHER -> _measure(m, shot_range, bin_size)

\* self._asarray(qml.math.squeeze(samples)) of _statistics_new
asarray_squeeze(samples) ==
    IF ~samples.ok THEN samples
    ELSE IF samples.val.kind = "NoneType" THEN Ok(ndarray(<<>>, "None"))
    ELSE Ok(squeeze(samples.val))

\* the squeeze of an array result when the device has a shot vector
shot_vector_squeeze(result) ==
    IF result.ok /\ _shot_vector # <<>> /\ result.val.kind = "ndarray"
    THEN [result EXCEPT !.val = squeeze(result.val)]
    ELSE result

\* one iteration of the loop of _statistics_new (lines 970-1121)
_statistics_new_measure(measurements, i, shot_range, bin_size) ==
    LET m == measurements[i]
        obs == m
        result ==
            CASE m.kind = "expval" -> expval_result(obs, shot_range, bin_size)
              [] m.kind = "var" -> var_result(obs, shot_range, bin_size)
              [] m.kind = "sample" ->
                    asarray_squeeze(sample_result(obs, shot_range, bin_size, FALSE))
              [] m.kind = "counts" -> sample_result(obs, shot_range, bin_size, TRUE)
              [] m.kind = "probs" -> probability_result(obs.wires, shot_range, bin_size)
              [] m.kind = "state" ->
                    IF in_combination(measurements)
                    THEN Raise("QuantumFunctionError", "combination")
                    ELSE warned(access_state(obs.wires))
              [] m.kind \in EntropyKinds ->
                    IF wires # CanonicalWires(Len(wires))
                    THEN Raise("QuantumFunctionError", "wire labels")
                    ELSE warned(Ok(ndarray(<<>>, "state")))
              [] m.kind = "shadow" ->
                    IF in_combination(measurements)
                    THEN Raise("QuantumFunctionError", "combination")
                    ELSE classical_shadow(obs)
              [] m.kind = "shadowexpval" ->
                    IF in_combination(measurements)
                    THEN Raise("QuantumFunctionError", "combination")
                    ELSE shadow_expval(obs)
              [] MeasurementTransform(m) -> transform_result(m)
              [] m.kind = "notvalid" -> Raise("QuantumFunctionError", "return type")
              [] OTHER ->
                    IF device_method(m.method_name) THEN method_result
                    ELSE _measure(m, shot_range, bin_size)
    IN  shot_vector_squeeze(result)

\* the loop over the first i measurements: the results so far or the
\* exception, the calls made, and whether classical_shadow ran to its end
\* results.append(result) after the measurement at position i gave r, shadow
\* saying that r is of classical_shadow or shadow_expval
results_append(before, r, i, shadow) ==
    IF ~before.ok THEN before
    ELSE [ok |-> r.ok,
          val |-> IF r.ok THEN Append(before.val, OfMeasurement(r.val, i)) ELSE <<>>,
          err |-> IF r.ok THEN NoError ELSE [r.err EXCEPT !.at = i],
          shadow |-> before.shadow \/ (shadow /\ r.ok),
          log |-> before.log \o <<Event("measure", <<i>>)>>
                      \o [q \in 1..Len(r.made) |-> Event(r.made[q], <<i>>)]
                      \o (IF shadow THEN <<Event("classical_shadow", <<>>)>> ELSE <<>>)]

\* a measurement for which the loop takes no branch: it has no return type
\* (obs.return_type is None on lines 869 and 1086) and is of no class that
\* the loop tests for, as MeasurementProcess() of test_measurements.py
unassigned(m) == m.kind = "process"

\* the iteration that takes no branch: statistics appends nothing (line
\* 872); _statistics_new appends its variable result (line 1121), which
\* holds the result of the iteration before, and is unbound in the first
result_unassigned(new, before, i) ==
    IF ~before.ok THEN before
    ELSE IF ~new THEN [before EXCEPT !.log = @ \o <<Event("measure", <<i>>)>>]
    ELSE IF before.val = <<>>
    THEN [before EXCEPT !.ok = FALSE,
                        !.err = [type |-> "UnboundLocalError",
                                 in |-> "_statistics_new", at |-> i],
                        !.log = @ \o <<Event("measure", <<i>>)>>]
    ELSE [before EXCEPT !.val = Append(@, @[Len(@)]),
                        !.log = @ \o <<Event("measure", <<i>>)>>]

RECURSIVE measurement_loop(_, _, _, _, _)
measurement_loop(new, measurements, i, shot_range, bin_size) ==
    IF i = 0
    THEN [ok |-> TRUE, val |-> <<>>, err |-> NoError, shadow |-> FALSE,
          log |-> <<Event(IF new THEN "_statistics_new" ELSE "statistics",
                          shot_range \o <<bin_size>>)>>]
    ELSE IF unassigned(measurements[i])
    THEN result_unassigned(
             new, measurement_loop(new, measurements, i - 1, shot_range, bin_size), i)
    ELSE results_append(
             measurement_loop(new, measurements, i - 1, shot_range, bin_size),
             IF new THEN _statistics_new_measure(measurements, i, shot_range, bin_size)
             ELSE statistics_measure(measurements, i, shot_range, bin_size),
             i,
             measurements[i].kind \in ShadowKinds /\ ~in_combination(measurements))

statistics(circuit, shot_range, bin_size) ==
    measurement_loop(FALSE, circuit.measurements, Len(circuit.measurements),
                     shot_range, bin_size)

_statistics_new(circuit, shot_range, bin_size) ==
    measurement_loop(TRUE, circuit.measurements, Len(circuit.measurements),
                     shot_range, bin_size)

\* ---------------------------------------------------- shot-vector results
\* np.prod(shot_tuple) added to s1: the end of the range of a shot-vector entry
shot_range_end_without_copies(s1, shot_tuple) == s1 + shot_tuple.shots

shot_range_end(s1, shot_tuple) == s1 + shot_tuple.shots * shot_tuple.copies

counts_exist(circuit) ==
    \E i \in 1..Len(circuit.measurements) : CountsMP(circuit.measurements[i])

\* the first exception of a table of outcomes filled row by row, or Ok(table)
FirstRaised(cells, rows, columns) ==
    LET failed == {f \in rows \X columns : ~cells[f[1]][f[2]].ok}
        first == CHOOSE f \in failed :
                     \A g \in failed : f[1] < g[1] \/ (f[1] = g[1] /\ f[2] <= g[2])
    IN  IF failed = {} THEN Ok(cells) ELSE cells[first[1]][first[2]]

_multi_meas_with_counts_shot_vec(circuit, shot_tuple, r) ==
    LET result(idx, idx2) ==
            LET measurement_proc == circuit.measurements[idx2]
                r_ == r[idx2]
                picked == IF ProbabilityMP(measurement_proc)
                             \/ (SampleMP(measurement_proc) /\ measurement_proc.obs # "none")
                          THEN index_second(r_, idx)
                          ELSE index_first(r_, idx)
            IN  IF picked.ok /\ ~CountsMP(measurement_proc)
                THEN Ok(T(picked.val)) ELSE picked
        cells == [idx \in 0..(shot_tuple.copies - 1) |->
                     [idx2 \in 1..Len(r) |-> result(idx, idx2)]]
        all == FirstRaised(cells, 0..(shot_tuple.copies - 1), 1..Len(r))
    IN  IF all.ok
        THEN Ok([c \in 1..shot_tuple.copies |->
                    pytuple([idx2 \in 1..Len(r) |-> cells[c - 1][idx2].val])])
        ELSE all

\* the entries that one iteration of the loop of shot_vec_statistics adds to
\* results (lines 470-509), r being the results of _statistics_new
shot_vec_results(circuit, shot_tuple, r) ==
    LET single_measurement == Len(circuit.measurements) = 1
        transposed(group) ==
            [c \in 1..Len(group) |->
                pytuple([j \in 1..Len(group[c].items) |->
                            IF group[c].items[j].kind = "dict" THEN group[c].items[j]
                            ELSE T(group[c].items[j])])]
        cells == [idx \in 0..(shot_tuple.copies - 1) |->
                     [j \in 1..Len(r) |-> index_first(T(r[j]), idx)]]
        all == FirstRaised(cells, 0..(shot_tuple.copies - 1), 1..Len(r))
        with_counts == _multi_meas_with_counts_shot_vec(circuit, shot_tuple, r)
    IN  IF single_measurement
        THEN IF r[1].kind = "ndarray"
             THEN IF shot_tuple.copies > 1 THEN unstack(T(r[1])) ELSE Ok(<<T(r[1])>>)
             ELSE IF counts_exist(circuit) THEN Ok(r[1].items)
             ELSE Ok(<<r[1]>>)
        ELSE IF shot_tuple.copies = 1
        THEN Ok(<<pytuple([j \in 1..Len(r) |->
                              IF r[j].kind = "list" THEN r[j].items[1] ELSE T(r[j])])>>)
        ELSE IF counts_exist(circuit)
        THEN IF with_counts.ok THEN Ok(transposed(with_counts.val)) ELSE with_counts
        ELSE IF all.ok
        THEN Ok(transposed([c \in 1..shot_tuple.copies |->
                               pytuple([j \in 1..Len(r) |-> cells[c - 1][j].val])]))
        ELSE all

\* the results r of the statistics for the shot-vector entry n
OfEntries(r, n) == [j \in 1..Len(r) |-> OfEntry(r[j], n)]

\* one iteration of a loop over the shot vector: stats is what the statistics
\* gave for the range ending at s2, added what the iteration adds to results
results_extend(before, stats, added, s2) ==
    IF ~before.ok THEN before
    ELSE IF ~stats.ok
    THEN [ok |-> FALSE, val |-> <<>>, err |-> stats.err,
          shadow |-> before.shadow, s1 |-> before.s1,
          log |-> before.log \o stats.log]
    ELSE IF ~added.ok
    THEN [ok |-> FALSE, val |-> <<>>, err |-> added.err,
          shadow |-> before.shadow \/ stats.shadow, s1 |-> before.s1,
          log |-> before.log \o stats.log]
    ELSE [ok |-> TRUE, val |-> before.val \o added.val, err |-> NoError,
          shadow |-> before.shadow \/ stats.shadow, s1 |-> s2,
          log |-> before.log \o stats.log]

\* the body of the loop of shot_vec_statistics for the entry n (lines 462-511)
shot_vec_statistics_entry(circuit, n, before, s2, stats) ==
    results_extend(before, stats,
                   shot_vec_results(circuit, _shot_vector[n], OfEntries(stats.val, n)),
                   s2)

\* the loop of shot_vec_statistics over the first n shot-vector entries
RECURSIVE shot_vec_statistics_loop(_, _, _)
shot_vec_statistics_loop(circuit, n, s1) ==
    IF n = 0
    THEN [ok |-> TRUE, val |-> <<>>, err |-> NoError, shadow |-> FALSE, s1 |-> 0,
          log |-> <<Event("shot_vec_statistics", <<>>)>>]
    ELSE shot_vec_statistics_entry(
             circuit, n,
             shot_vec_statistics_loop(circuit, n - 1, s1),
             shot_range_end(s1[n], _shot_vector[n]),
             _statistics_new(circuit,
                             <<s1[n], shot_range_end(s1[n], _shot_vector[n])>>,
                             _shot_vector[n].shots))

\* the value of s1 at the start of every iteration of the shot-vector loops
RECURSIVE shot_range_starts(_)
shot_range_starts(n) ==
    IF n = 0 THEN <<>>
    ELSE IF n = 1 THEN <<0>>
    ELSE LET starts == shot_range_starts(n - 1)
         IN  Append(starts, shot_range_end(starts[n - 1], _shot_vector[n - 1]))

\* tuple(results), or the exception
results_tuple(done) == [done EXCEPT !.val = IF done.ok THEN pytuple(done.val) ELSE NoValue]

shot_vec_statistics(circuit) ==
    results_tuple(shot_vec_statistics_loop(circuit, Len(_shot_vector),
                                           shot_range_starts(Len(_shot_vector))))

\* Flattening of a sequence of sequences
RECURSIVE Concat(_)
Concat(ss) == IF ss = <<>> THEN <<>> ELSE ss[1] \o Concat(Tail(ss))

\* the entries that one iteration of the loop of _collect_shotvector_results
\* adds to results (lines 270-290), r being the results of statistics.  With
\* several measurements np.squeeze(r) stacks their results: the stack is kept
\* as the value "stacked" of the results, and its rows as "rows".
collect_results(circuit, shot_tuple, r) ==
    LET squeezed == IF Len(r) = 1 THEN squeeze(r[1])
                    ELSE Value("stacked", <<>>, "None", r)
    IN  IF counts_exist(circuit)
        THEN Ok(Concat([j \in 1..Len(r) |->
                           IF r[j].kind = "list" THEN r[j].items ELSE <<T(r[j])>>]))
        ELSE IF shot_tuple.copies > 1
        THEN IF Len(r) = 1 THEN unstack(T(squeezed))
             ELSE Ok(<<Value("rows", <<>>, "None", <<squeezed>>)>>)
        ELSE Ok(<<T(squeezed)>>)

\* the loop of _collect_shotvector_results over the first n entries
\* the body of the loop of _collect_shotvector_results for the entry n
_collect_shotvector_results_entry(circuit, n, before, s2, stats) ==
    results_extend(before, stats,
                   collect_results(circuit, _shot_vector[n], OfEntries(stats.val, n)),
                   s2)

RECURSIVE _collect_shotvector_results_loop(_, _, _)
_collect_shotvector_results_loop(circuit, n, s1) ==
    IF n = 0
    THEN [ok |-> TRUE, val |-> <<>>, err |-> NoError, shadow |-> FALSE, s1 |-> 0,
          log |-> <<Event("_collect_shotvector_results", <<>>)>>]
    ELSE _collect_shotvector_results_entry(
             circuit, n,
             _collect_shotvector_results_loop(circuit, n - 1, s1),
             shot_range_end(s1[n], _shot_vector[n]),
             statistics(circuit,
                        <<s1[n], shot_range_end(s1[n], _shot_vector[n])>>,
                        _shot_vector[n].shots))

\* qml.math.stack(results) unless the results are of several sampled jobs or
\* hold counts (lines 292-299)
results_stack(circuit, done) ==
    [done EXCEPT !.val =
        IF ~done.ok THEN NoValue
        ELSE IF ~(is_sampled(circuit) /\ _has_partitioned_shots) /\ ~counts_exist(circuit)
        THEN Value("stacked", <<>>, "None", done.val)
        ELSE Value("list", <<>>, "None", done.val)]

_collect_shotvector_results(circuit) ==
    results_stack(circuit,
                  _collect_shotvector_results_loop(circuit, Len(_shot_vector),
                                                   shot_range_starts(Len(_shot_vector))))

\* the typing of the results at the end of execute (lines 403-426): the kind
\* of the returned value says how the results were cast
normalized(circuit, results) ==
    LET measurements == circuit.measurements
    IN  IF ~is_sampled(circuit)
        THEN IF Len(measurements) = 1
             THEN IF measurements[1].kind = "state"
                  THEN [results EXCEPT !.kind = "asarray C_DTYPE"]
                  ELSE [results EXCEPT !.kind = "asarray R_DTYPE"]
             ELSE IF \A i \in 1..Len(measurements) :
                         measurements[i].kind \in {"expval", "var"}
             THEN [results EXCEPT !.kind = "asarray R_DTYPE"]
             ELSE IF ~counts_exist(circuit)
             THEN [results EXCEPT !.kind = "asarray"]
             ELSE results
        ELSE IF all_sampled(circuit) /\ ~_has_partitioned_shots /\ ~counts_exist(circuit)
        THEN [results EXCEPT !.kind = "asarray"]
        ELSE pytuple([j \in 1..Len(results.items) |->
                         IF results.items[j].kind = "dict" THEN results.items[j]
                         ELSE squeeze(results.items[j])])

\* ------------------------------------------------ the device and circuits
ShotTuple(s, c) == [shots |-> s, copies |-> c]

ShotVectors ==
    {<<ShotTuple(MaxShots, 1)>>, <<ShotTuple(MaxShots, 1), ShotTuple(1, MaxCopies)>>}

RECURSIVE TotalShots(_)
TotalShots(v) ==
    IF v = <<>> THEN 0 ELSE v[1].shots * v[1].copies + TotalShots(Tail(v))

\* what the shots setter of Device stores for None, an integer, a sequence
ShotSettings ==
    {[shots |-> None, _shot_vector |-> <<>>], [shots |-> MaxShots, _shot_vector |-> <<>>]}
    \cup {[shots |-> TotalShots(v), _shot_vector |-> v] : v \in ShotVectors}

\* the measurement processes a circuit of the model can hold
Measurements ==
    {[kind |-> "expval", obs |-> "PauliZ", wires |-> <<wires[1]>>, method_name |-> ""],
     [kind |-> "sample", obs |-> "PauliZ", wires |-> <<wires[1]>>, method_name |-> ""],
     [kind |-> "sample", obs |-> "none", wires |-> <<>>, method_name |-> ""],
     [kind |-> "counts", obs |-> "none", wires |-> <<>>, method_name |-> ""],
     [kind |-> "probs", obs |-> "none", wires |-> <<wires[2], wires[1]>>, method_name |-> ""],
     [kind |-> "state", obs |-> "none", wires |-> <<>>, method_name |-> ""],
     [kind |-> "vnentropy", obs |-> "none", wires |-> <<wires[1]>>, method_name |-> ""],
     [kind |-> "mutualinfo", obs |-> "none", wires |-> <<wires[1], wires[2]>>, method_name |-> ""],
     [kind |-> "shadow", obs |-> "none", wires |-> wires, method_name |-> ""],
     [kind |-> "shadowexpval", obs |-> "none", wires |-> wires, method_name |-> ""],
     [kind |-> "customsample", obs |-> "none", wires |-> <<wires[1]>>, method_name |-> ""]}
    \cup {[kind |-> k, obs |-> "none", wires |-> <<wires[1]>>, method_name |-> n] :
              k \in {"customsample", "customstate", "transform"},
              n \in {"", "test_method"}}
    \cup {[kind |-> "customboth", obs |-> "none", wires |-> <<wires[1]>>,
            method_name |-> ""]}

\* the circuits: PauliX on the first wire, then one measurement list
Circuits ==
    {[operations |-> <<[name |-> "PauliX", wires |-> <<wires[1]>>]>>, measurements |-> ms] :
        ms \in UNION {[1..k -> Measurements] : k \in 1..MaxMeasurements}}

\* apply: the basis state that the PauliX gates prepare from |0...0>, every
\* wire that rotations names turned to a basis in which both outcomes occur
apply(operations, rotations) ==
    LET n == Len(wires)
        flips(c) == Cardinality({o \in 1..Len(operations) :
                                    map_wires(operations[o].wires)[1] = c - 1})
        prepared == BitsToIndex([c \in 1..n |-> flips(c) % 2])
        rotated(c) == \E q \in 1..Len(rotations) : rotations[q] = c - 1
        bit(s, c) == (s \div Pow2(n - c)) % 2
    IN  [s \in 0..(Pow2(n) - 1) |->
            IF \A c \in 1..n : rotated(c) \/ bit(s, c) = bit(prepared, c)
            THEN 1 ELSE 0]

\* recipes[t][wire_idx] of RandomState(seed).randint(0, 3, ...): a fixed table
recipes(t, wire_idx) == (t + wire_idx) % 3

\* the device wires that the last snapshot of classical_shadow rotates: those
\* measured in the Pauli X (0) or Pauli Y (1) basis
last_rotations(obs) ==
    LET mapped_wires == map_wires(obs.wires)
    IN  SelectSeq(mapped_wires,
                  LAMBDA d : \E wire_idx \in 1..Len(mapped_wires) :
                      /\ mapped_wires[wire_idx] = d
                      /\ recipes(shots - 1, wire_idx - 1) # 2)

\* whether execute draws the sample buffer (lines 334 and 391)
generates_samples_when_empty(circuit) ==
    /\ _samples = <<>>
    /\ IF active_return THEN shots # None ELSE shots # None \/ is_sampled(circuit)

generates_samples(circuit) ==
    IF active_return THEN shots # None ELSE shots # None \/ is_sampled(circuit)

\* the results of _execute_new (lines 337-346)
single_or_tuple(circuit, results) ==
    [results EXCEPT !.val =
        IF ~results.ok THEN NoValue
        ELSE IF Len(circuit.measurements) = 1 THEN results.val[1]
        ELSE pytuple(results.val)]

_execute_new_results(circuit) ==
    IF _shot_vector # <<>> THEN shot_vec_statistics(circuit)
    ELSE single_or_tuple(circuit, _statistics_new(circuit, <<>>, None))

\* the results of execute (lines 394-426)
results_list(r) == [r EXCEPT !.val = Value("list", <<>>, "None", r.val)]

results_normalized(circuit, results) ==
    [results EXCEPT !.val = IF results.ok THEN normalized(circuit, results.val)
                            ELSE NoValue]

execute_results(circuit) ==
    results_normalized(circuit,
                       IF shots # None /\ _shot_vector # <<>>
                       THEN _collect_shotvector_results(circuit)
                       ELSE results_list(statistics(circuit, <<>>, None)))

\* ------------------------------------------------------------ the device
\* A device after construction: shots given as None, an integer or a shot
\* vector, no sample buffer, no execution made.  The tracker is active or not.
Init ==
    /\ wires \in {CanonicalWires(PipelineWires), CustomWires(PipelineWires)}
    /\ \E setting \in ShotSettings :
           /\ shots = setting.shots
           /\ _shot_vector = setting._shot_vector
    /\ _state = [s \in 0..(Pow2(PipelineWires) - 1) |-> IF s = 0 THEN 1 ELSE 0]
    /\ _samples = <<>>
    /\ _num_executions = 0
    /\ active_return \in BOOLEAN
    /\ call = NoCall
    /\ error = NoError
    /\ log = <<>>
    /\ pc = "idle"
    /\ calls = 0
    /\ drawn_in = 0
    /\ shot_changes = 0
    /\ tracker \in {[active |-> a, recorded |-> <<>>] : a \in BOOLEAN}
    /\ batch = NoBatch
    /\ shadow_run = NoShadow
    /\ tape = NoTape

\* execute and _execute_new up to the statistics: check_validity, apply, and
\* the sample buffer (lines 332-335 and 385-392)
ExecuteApply(circuit) ==
    /\ pc = "idle"
    /\ calls < MaxCalls
    /\ calls' = calls + 1
    /\ _state' = apply(circuit.operations, <<>>)
    /\ call' = [op |-> "execute", args |-> circuit, res |-> NoValue]
    /\ UNCHANGED <<wires, shots, _shot_vector, _num_executions, active_return,
                   shot_changes, tracker, batch, shadow_run, tape>>
    /\ IF generates_samples(circuit)
       THEN /\ log' = <<Event("check_validity", <<>>), Event("apply", <<>>),
                        Event("generate_samples", <<>>)>>
            /\ IF shots = None
               THEN \* sample_basis_states raises
                    /\ error' = [type |-> "QuantumFunctionError",
                                 in |-> "sample_basis_states", at |-> 0]
                    /\ pc' = "returned"
                    /\ UNCHANGED <<_samples, drawn_in>>
               ELSE /\ _samples' \in generate_samples'
                    /\ drawn_in' = calls'
                    /\ error' = NoError
                    /\ pc' = "statistics"
       ELSE /\ log' = <<Event("check_validity", <<>>), Event("apply", <<>>)>>
            /\ error' = NoError
            /\ pc' = "statistics"
            /\ UNCHANGED <<_samples, drawn_in>>

\* self._num_executions += 1 (lines 348 and 429), reached when the statistics
\* and the normalisation of the results raised nothing
num_executions_uncounted(n, ok) == n

num_executions_after(n, ok) == IF ok THEN n + 1 ELSE n

\* if self.tracker.active: self.tracker.update(...); self.tracker.record()
\* (lines 350-352, 431-433, 579-581 and 615-617)
tracker_update_always(tr, record) ==
    [tr EXCEPT !.recorded = Append(tr.recorded, record)]

tracker_update(tr, record) ==
    IF tr.active THEN [tr EXCEPT !.recorded = Append(tr.recorded, record)] ELSE tr

\* what execute does after the statistics returned, in order: the results are
\* put in their returned form (lines 339-345 and 403-426), the execution is
\* counted (348, 429) and the tracker records it (350-352, 431-433)
execute_tail(ok, active) ==
    IF ~ok THEN <<>>
    ELSE <<Event("results", <<>>), Event("_num_executions", <<>>)>>
         \o (IF active THEN <<Event("tracker.record", <<>>)>> ELSE <<>>)

\* execute and _execute_new from the statistics on (lines 337-354 and
\* 394-435): the results are returned and the execution counted, or the
\* exception of the statistics leaves execute
ExecuteReturns(circuit, results) ==
    /\ call' = [call EXCEPT !.res = results.val]
    /\ error' = results.err
    /\ log' = log \o results.log \o execute_tail(results.ok, tracker.active)
    /\ _num_executions' = num_executions_after(_num_executions, results.ok)
    /\ tracker' = IF results.ok
                  THEN tracker_update(tracker, [executions |-> 1, shots |-> shots,
                                                results |-> results.val])
                  ELSE tracker
    /\ IF results.shadow
       THEN \* classical_shadow: reset and apply for every snapshot
            /\ _samples' = <<>>
            /\ drawn_in' = 0
            /\ _state' = apply(circuit.operations, last_rotations(circuit.measurements[1]))
       ELSE UNCHANGED <<_samples, drawn_in, _state>>
    /\ pc' = "returned"
    /\ UNCHANGED <<wires, shots, _shot_vector, active_return, calls, shot_changes,
                   batch, shadow_run, tape>>

ExecuteStatistics ==
    /\ pc = "statistics"
    /\ ExecuteReturns(call.args,
                      IF active_return THEN _execute_new_results(call.args)
                      ELSE execute_results(call.args))

\* the caller has the result or the exception of execute
Return ==
    /\ pc = "returned"
    /\ batch = NoBatch
    /\ pc' = "idle"
    /\ call' = NoCall
    /\ error' = NoError
    /\ log' = <<>>
    /\ tracker' = [tracker EXCEPT !.recorded = <<>>]
    /\ UNCHANGED <<wires, shots, _shot_vector, _state, _samples, _num_executions,
                   active_return, calls, drawn_in, shot_changes, batch, shadow_run, tape>>

\* reset (lines 247-253)
Reset ==
    /\ pc = "idle"
    /\ _samples' = <<>>
    /\ drawn_in' = 0
    /\ UNCHANGED <<wires, shots, _shot_vector, _state, _num_executions, active_return,
                   call, error, log, pc, calls, shot_changes, tracker, batch, shadow_run, tape>>

\* the shots setter of Device, between two executions
SetShots(setting) ==
    /\ pc = "idle"
    /\ calls > 0
    /\ shot_changes < MaxShotChanges
    /\ setting # [shots |-> shots, _shot_vector |-> _shot_vector]
    /\ shots' = setting.shots
    /\ _shot_vector' = setting._shot_vector
    /\ shot_changes' = shot_changes + 1
    /\ UNCHANGED <<wires, _state, _samples, _num_executions, active_return, call,
                   error, log, pc, calls, drawn_in, tracker, batch, shadow_run, tape>>

Next ==
    \/ \E circuit \in Circuits : ExecuteApply(circuit)
    \/ ExecuteStatistics
    \/ Return
    \/ Reset
    \/ \E setting \in ShotSettings : SetShots(setting)

Spec == Init /\ [][Next]_vars

\* ------------------------------------------------------- batch_execute
\* the circuits of the batches: one measurement each
BatchCircuits == {circuit \in Circuits : Len(circuit.measurements) = 1}

RECURSIVE ListsOf(_, _)
ListsOf(S, n) ==
    IF n = 0 THEN {<<>>}
    ELSE ListsOf(S, n - 1) \cup {Append(l, x) : l \in {k \in ListsOf(S, n - 1) : Len(k) = n - 1}, x \in S}

\* results.append(res) with the results in front of the others
batch_after_prepend(b, circuit, res) ==
    [b EXCEPT !.i = @ + 1,
              !.results = <<res>> \o @,
              !.trace = Append(@, [name |-> "execute", circuit |-> circuit, res |-> res])]

\* res = self.execute(circuit); results.append(res) (lines 574-575, 610-611)
batch_after(b, circuit, res) ==
    [b EXCEPT !.i = @ + 1,
              !.results = Append(@, res),
              !.trace = Append(@, [name |-> "execute", circuit |-> circuit, res |-> res])]

\* batch_execute and _batch_execute_new are called: results = []
BatchExecute(circuits) ==
    /\ pc = "idle"
    /\ ~batch.running
    /\ calls + Len(circuits) <= MaxCalls
    /\ batch' = [running |-> TRUE, circuits |-> circuits, i |-> 0, results |-> <<>>,
                 trace |-> <<>>, start |-> _num_executions]
    /\ call' = [op |-> "batch_execute", args |-> circuits, res |-> NoValue]
    /\ pc' = "batch"
    /\ UNCHANGED <<wires, shots, _shot_vector, _state, _samples, _num_executions,
                   active_return, error, log, calls, drawn_in, shot_changes, tracker,
                   shadow_run, tape>>

\* for circuit in circuits: self.reset() (lines 569-572, 605-608)
BatchReset ==
    /\ pc = "batch"
    /\ batch.i < Len(batch.circuits)
    /\ _samples' = <<>>
    /\ drawn_in' = 0
    /\ batch' = [batch EXCEPT !.trace = Append(@, [name |-> "reset", circuit |-> <<>>,
                                                    res |-> NoValue])]
    /\ pc' = "idle"
    /\ UNCHANGED <<wires, shots, _shot_vector, _state, _num_executions, active_return,
                   call, error, log, calls, shot_changes, tracker,
                   shadow_run, tape>>

\* res = self.execute(circuit), up to the statistics
BatchExecuteApply ==
    /\ batch.running
    /\ ExecuteApply(batch.circuits[batch.i + 1])

\* execute has ended: its result is appended and the loop goes on, or its
\* exception leaves batch_execute
BatchCollect ==
    /\ pc = "returned"
    /\ batch.running
    /\ IF error = NoError
       THEN /\ batch' = batch_after(batch, call.args, call.res)
            /\ pc' = "batch"
            /\ UNCHANGED call
       ELSE /\ call' = [op |-> "batch_execute", args |-> batch.circuits, res |-> NoValue]
            /\ pc' = "batch_returned"
            /\ UNCHANGED batch
    /\ UNCHANGED <<wires, shots, _shot_vector, _state, _samples, _num_executions,
                   active_return, error, log, calls, drawn_in, shot_changes, tracker,
                   shadow_run, tape>>

\* after the loop: the tracker records the batch and the results are returned
\* (lines 577-583, 613-619)
BatchReturn ==
    /\ pc = "batch"
    /\ batch.i = Len(batch.circuits)
    /\ tracker' = tracker_update(tracker, [batches |-> 1, batch_len |-> Len(batch.circuits)])
    /\ call' = [op |-> "batch_execute", args |-> batch.circuits, res |-> batch.results]
    /\ log' = Append(log, Event("return", <<>>))
    /\ pc' = "batch_returned"
    /\ UNCHANGED <<wires, shots, _shot_vector, _state, _samples, _num_executions,
                   active_return, error, calls, drawn_in, shot_changes, batch, shadow_run, tape>>

\* the caller has the results or the exception of batch_execute
BatchDone ==
    /\ pc = "batch_returned"
    /\ pc' = "idle"
    /\ call' = NoCall
    /\ error' = NoError
    /\ log' = <<>>
    /\ batch' = NoBatch
    /\ tracker' = [tracker EXCEPT !.recorded = <<>>]
    /\ UNCHANGED <<wires, shots, _shot_vector, _state, _samples, _num_executions,
                   active_return, calls, drawn_in, shot_changes, shadow_run, tape>>

NextBatch ==
    \/ \E circuits \in ListsOf(BatchCircuits, MaxCalls) : BatchExecute(circuits)
    \/ BatchReset
    \/ BatchExecuteApply
    \/ ExecuteStatistics
    \/ BatchCollect
    \/ BatchReturn
    \/ BatchDone

SpecBatch == Init /\ [][NextBatch]_vars

\* ------------------------------------------------ the basis conversions
\* states_to_binary, generate_basis_states and the re-weighting of bits with
\* powers of two, called on every basis state and bit vector of up to
\* MaxBasisWires wires; the device itself plays no part.
InitBasis ==
    /\ wires = CanonicalWires(PipelineWires)
    /\ shots = None
    /\ _shot_vector = <<>>
    /\ _state = [s \in 0..(Pow2(PipelineWires) - 1) |-> 1]
    /\ _samples = <<>>
    /\ _num_executions = 0
    /\ active_return \in BOOLEAN
    /\ call = NoCall
    /\ error = NoError
    /\ log = <<>>
    /\ pc = "idle"
    /\ calls = 0
    /\ drawn_in = 0
    /\ shot_changes = 0
    /\ tracker = [active |-> FALSE, recorded |-> <<>>]
    /\ batch = NoBatch
    /\ shadow_run = NoShadow
    /\ tape = NoTape

\* QubitDevice.states_to_binary(samples, num_wires) for one sample
BasisStatesToBinary ==
    /\ call = NoCall
    /\ \E n \in 1..MaxBasisWires : \E i \in 0..(Pow2(n) - 1) :
           call' = [op |-> "states_to_binary", args |-> <<i, n>>,
                    res |-> states_to_binary(i, n)]
    /\ UNCHANGED <<wires, shots, _state, _samples, pipelineVars>>

\* samples @ powers_of_two for one sample of n bits
BasisToIndex ==
    /\ call = NoCall
    /\ \E n \in 1..MaxBasisWires : \E bits \in [1..n -> {0, 1}] :
           call' = [op |-> "powers_of_two", args |-> <<bits, n>>,
                    res |-> BitsToIndex(bits)]
    /\ UNCHANGED <<wires, shots, _state, _samples, pipelineVars>>

\* QubitDevice.generate_basis_states(num_wires)
BasisGenerate ==
    /\ call = NoCall
    /\ \E n \in 1..MaxBasisWires :
           call' = [op |-> "generate_basis_states", args |-> <<n, n>>,
                    res |-> generate_basis_states(n)]
    /\ UNCHANGED <<wires, shots, _state, _samples, pipelineVars>>

NextBasis ==
    \/ BasisStatesToBinary
    \/ BasisToIndex
    \/ BasisGenerate

SpecBasis == InitBasis /\ [][NextBasis]_vars

\* ------------------------------------------------------ sample and counts
\* What sample() is given as its observable: a measurement process without
\* observable [kind, name, wires, all_outcomes], name the name of its class,
\* or an observable [name, wires, factors, parameters].
no_observable_provided(observable) == observable.name \in {"SampleMP", "CountsMP"}

\* "".join([str(s.item()) for s in sample]): one character per bit
bit_string(sample) == [c \in 1..Len(sample) |-> IF sample[c] = 0 THEN "0" ELSE "1"]

\* the dictionary filled in from the keys outcomes, at 0, and then from the
\* keys np.unique finds in samples, with the number of samples of each
outcome_dict(outcomes, samples) ==
    [k \in outcomes \cup {samples[t] : t \in 1..Len(samples)} |->
        Cardinality({t \in 1..Len(samples) : samples[t] = k})]

\* the outcomes the dictionary starts with, at count 0: none
all_outcomes_dropped(obs, num_wires) == {}

\* the outcomes the dictionary starts with, at count 0 (lines 1788-1795; the
\* eigenvalues of an observable counted with all outcomes are not modelled)
all_outcomes(obs, num_wires) ==
    IF CountsMP(obs) /\ obs.all_outcomes
    THEN {bit_string(generate_basis_states(num_wires)[i]) : i \in 0..(Pow2(num_wires) - 1)}
    ELSE {}

_samples_to_counts(samples, obs, num_wires) ==
    IF CountsMP(obs)
    THEN outcome_dict(all_outcomes(obs, num_wires),
                      [t \in 1..Len(samples) |-> bit_string(samples[t])])
    ELSE outcome_dict(all_outcomes(obs, num_wires), samples)

\* sub_samples[..., device_wires]
sample_columns(sub_samples, device_wires) ==
    [t \in 1..Len(sub_samples) |->
        [c \in 1..Len(device_wires) |-> sub_samples[t][device_wires[c] + 1]]]

\* the value of every sample, the bit itself for a Pauli observable
sample_values_of_bits(observable, sub_samples, device_wires) ==
    IF observable.name \in {"PauliX", "PauliY", "PauliZ", "Hadamard"}
    THEN [t \in 1..Len(sub_samples) |-> sub_samples[t][device_wires[1] + 1]]
    ELSE IF no_observable_provided(observable)
    THEN IF Len(observable.wires) # 0 THEN sample_columns(sub_samples, device_wires)
         ELSE sub_samples
    ELSE [t \in 1..Len(sub_samples) |->
             eigvals(observable)[BitsToIndex(sample_columns(sub_samples, device_wires)[t])]]

\* lines 1841-1864: the value of every sample
sample_values(observable, sub_samples, device_wires) ==
    IF observable.name \in {"PauliX", "PauliY", "PauliZ", "Hadamard"}
    THEN [t \in 1..Len(sub_samples) |-> 1 - 2 * sub_samples[t][device_wires[1] + 1]]
    ELSE IF no_observable_provided(observable)
    THEN IF Len(observable.wires) # 0 THEN sample_columns(sub_samples, device_wires)
         ELSE sub_samples
    ELSE [t \in 1..Len(sub_samples) |->
             eigvals(observable)[BitsToIndex(sample_columns(sub_samples, device_wires)[t])]]

\* lines 1866-1886: the samples as they are, as counts, or in bins
sample_binned(samples, observable, num_wires, bin_size, counts) ==
    IF bin_size = None
    THEN IF counts THEN _samples_to_counts(samples, observable, num_wires) ELSE samples
    ELSE IF counts
    THEN [b \in 1..(Len(samples) \div bin_size) |->
             _samples_to_counts(SubSeq(samples, (b - 1) * bin_size + 1, b * bin_size),
                                observable, num_wires)]
    ELSE IF no_observable_provided(observable)
    THEN [c \in 1..num_wires |-> [r \in 1..bin_size |->
             [j \in 1..(Len(samples) \div bin_size) |->
                 samples[(r - 1) * (Len(samples) \div bin_size) + j][c]]]]
    ELSE [r \in 1..bin_size |-> [j \in 1..(Len(samples) \div bin_size) |->
             samples[(r - 1) * (Len(samples) \div bin_size) + j]]]

sample(observable, shot_range, bin_size, counts) ==
    sample_binned(
        sample_values(observable,
                      IF shot_range = <<>> THEN _samples ELSE PySlice(_samples, shot_range),
                      map_wires(observable.wires)),
        observable,
        IF Len(observable.wires) > 0 THEN Len(observable.wires) ELSE Len(wires),
        bin_size, counts)

\* ---- SampleMP.process_samples (measurements/sample.py, lines 188-232)
\* An array returned is given by the number of its axes and its entries (the
\* entry of an array without axes as a sequence of one), an exception by its
\* type.
Returned(ndim, val) == [raised |-> "none", ndim |-> ndim, val |-> val]
Raised(type) == [raised |-> type, ndim |-> 0, val |-> <<>>]

\* wire_map = dict(zip(wire_order, range(len(wire_order)))) and
\* mapped_wires = [wire_map[w] for w in self.wires]
mapped_wires_of(m, wire_order) ==
    [i \in 1..Len(m.wires) |->
        (CHOOSE d \in 1..Len(wire_order) : wire_order[d] = m.wires[i]) - 1]

\* samples[..., slice(*shot_range), :] and samples[..., mapped_wires]
selected_samples(samples, mapped_wires, shot_range) ==
    IF mapped_wires # <<>>
    THEN sample_columns(IF shot_range = <<>> THEN samples
                        ELSE PySlice(samples, shot_range), mapped_wires)
    ELSE IF shot_range = <<>> THEN samples ELSE PySlice(samples, shot_range)

\* whether name can be looked up in a set: the name of a tensor product is
\* the list of the names of its factors, which has no hash
hashable(name) == name # "Tensor"

\* samples.reshape((bin_size, -1)) of the values of the samples
reshape_bins(values, bin_size) ==
    [r \in 1..bin_size |-> [j \in 1..(Len(values) \div bin_size) |->
        values[(r - 1) * (Len(values) \div bin_size) + j]]]

\* lines 205-232, of the samples selected
process_selected(m, samples, bin_size) ==
    IF no_observable_provided(m)
    THEN IF bin_size = None THEN Returned(2, samples)
         ELSE Returned(3, [c \in 1..Len(samples[1]) |-> [r \in 1..bin_size |->
                              [j \in 1..(Len(samples) \div bin_size) |->
                                  samples[(r - 1) * (Len(samples) \div bin_size) + j][c]]]])
    ELSE IF ~hashable(m.name) THEN Raised("TypeError")
    ELSE IF m.name \in {"PauliX", "PauliY", "PauliZ", "Hadamard"}
    THEN \* 1 - 2 * qml.math.squeeze(samples): one sample leaves no axis
         IF bin_size # None
         THEN Returned(2, reshape_bins([t \in 1..Len(samples) |->
                                           1 - 2 * samples[t][1]], bin_size))
         ELSE Returned(IF Len(samples) = 1 /\ Len(samples[1]) = 1 THEN 0 ELSE 1,
                       [t \in 1..Len(samples) |-> 1 - 2 * samples[t][1]])
    ELSE IF bin_size # None
    THEN Returned(2, reshape_bins([t \in 1..Len(samples) |->
                                      eigvals(m)[BitsToIndex(samples[t])]], bin_size))
    ELSE Returned(1, [t \in 1..Len(samples) |-> eigvals(m)[BitsToIndex(samples[t])]])

process_samples(m, samples, wire_order, shot_range, bin_size) ==
    process_selected(m,
                     selected_samples(samples, mapped_wires_of(m, wire_order), shot_range),
                     bin_size)

\* np.mean and np.var of the values x, as exact quotients: np.var is the
\* mean of abs(x - x.mean()) ** 2
np_mean(x) == <<SumOver(DOMAIN x, x), Len(x)>>
np_var(x) ==
    <<SumOver(DOMAIN x, [t \in DOMAIN x |->
                            (Len(x) * x[t] - SumOver(DOMAIN x, x))
                                * (Len(x) * x[t] - SumOver(DOMAIN x, x))]),
      Len(x) * Len(x) * Len(x)>>

\* np.squeeze(np.mean(samples, axis)) with axis = -1 if bin_size is None else
\* -2: over all samples, or over the rows of the bin_size x num_bins samples
squeezed(x) == IF Len(x) = 1 THEN x[1] ELSE x
mean_of_samples(samples, bin_size) ==
    IF bin_size = None THEN np_mean(samples)
    ELSE squeezed([j \in 1..Len(samples[1]) |->
                      np_mean([r \in 1..Len(samples) |-> samples[r][j]])])
var_of_samples(samples, bin_size) ==
    IF bin_size = None THEN np_var(samples)
    ELSE squeezed([j \in 1..Len(samples[1]) |->
                      np_var([r \in 1..Len(samples) |-> samples[r][j]])])

\* expval and var: the Projector branch, the exact value (an integer, in the
\* units of expval_analytic and var_analytic), the estimate from the samples
expval(observable, shot_range, bin_size) ==
    IF observable.name = "Projector"
    THEN probability(observable.wires, shot_range, bin_size)[ProjectorIdx(observable)]
    ELSE IF shots = None THEN expval_analytic(observable)
    ELSE mean_of_samples(sample(observable, shot_range, bin_size, FALSE), bin_size)

var(observable, shot_range, bin_size) ==
    IF observable.name = "Projector"
    THEN IF shots = None THEN var_analytic(observable)
         ELSE LET p == probability(observable.wires, shot_range,
                                   bin_size)[ProjectorIdx(observable)]
              IN  <<p[1] * p[2] - p[1] * p[1], p[2] * p[2]>>
    ELSE IF shots = None THEN var_analytic(observable)
    ELSE var_of_samples(sample(observable, shot_range, bin_size, FALSE), bin_size)

\* ------------------------------------------------ reading the sample buffer
\* The routines that read the sample buffer, called on a device that has
\* drawn it: every buffer that generate_samples can return for the state.
SampleStates ==
    {[s \in 0..(Pow2(PipelineWires) - 1) |-> 1],
     [s \in 0..(Pow2(PipelineWires) - 1) |->
         IF s = 0 THEN 2 ELSE IF s = Pow2(PipelineWires) - 1 THEN 0 ELSE 1],
     apply(<<[name |-> "PauliX", wires |-> <<wires[1]>>]>>, <<>>)}

\* the rows of a state with a broadcast axis: a basis state, and a state of
\* two outcomes
BroadcastStates ==
    {[i \in 0..1 |->
         IF i = 0 THEN apply(<<[name |-> "PauliX", wires |-> <<wires[1]>>]>>, <<>>)
         ELSE [s \in 0..(Pow2(PipelineWires) - 1) |->
                  IF s \in {0, Pow2(PipelineWires) - 1} THEN 1 ELSE 0]]}

\* generate_samples for the probabilities state_probability
samples_of(state_probability) ==
    {[t \in 1..shots |-> states_to_binary(samples[t], Len(wires))] :
        samples \in sample_basis_states(Pow2(Len(wires)), state_probability)}

\* the divisors of n
Divisors(n) == {d \in 1..n : n % d = 0}

\* the ranges [s1, s2) of the buffer that hold a sample, as the entries of a
\* shot vector give them (lines 275-280 and 463-468)
ShotRanges == {r \in (0..(shots - 1)) \X (1..shots) : r[1] < r[2]}

\* the shot_range / bin_size arguments: a range of the buffer or none, a bin
\* size that divides the number of samples or none
SampleShotArgs ==
    {<<<<>>, b>> : b \in {None} \cup Divisors(shots)}
    \cup UNION {{<<r, b>> : b \in {None} \cup Divisors(r[2] - r[1])} : r \in ShotRanges}

InitSamples ==
    /\ wires \in {CanonicalWires(PipelineWires), CustomWires(PipelineWires)}
    /\ shots \in {None} \cup (1..SampleShots)
    /\ _shot_vector = <<>>
    /\ _state \in SampleStates
    /\ _samples = <<>>
    /\ _num_executions = 0
    /\ active_return = FALSE
    /\ call = NoCall
    /\ error = NoError
    /\ log = <<>>
    /\ pc = "idle"
    /\ calls = 0
    /\ drawn_in = 0
    /\ shot_changes = 0
    /\ tracker = [active |-> FALSE, recorded |-> <<>>]
    /\ batch = NoBatch
    /\ shadow_run = NoShadow
    /\ tape = NoTape

\* self._samples = self.generate_samples() (lines 335 and 392)
SamplesGenerate ==
    /\ shots # None
    /\ _samples = <<>>
    /\ _samples' \in samples_of(_state)
    /\ UNCHANGED <<wires, shots, _state, call, pipelineVars>>

\* the same for a state with a broadcast axis (lines 1197-1201)
SamplesGenerateBroadcast ==
    /\ shots # None
    /\ _samples = <<>>
    /\ \E state_probability \in BroadcastStates :
           /\ _state' = state_probability
           /\ _samples' \in {[i \in 0..1 |-> IF i = 0 THEN r0 ELSE r1] :
                                r0 \in samples_of(state_probability[0]),
                                r1 \in samples_of(state_probability[1])}
    /\ UNCHANGED <<wires, shots, call, pipelineVars>>

SamplesEstimateProbability ==
    /\ call = NoCall
    /\ _samples # <<>>
    /\ \E w \in WireSeqs, a \in SampleShotArgs :
           call' = [op |-> "estimate_probability", args |-> <<w, a[1], a[2]>>,
                    res |-> estimate_probability(w, a[1], a[2])]
    /\ UNCHANGED <<wires, shots, _state, _samples, pipelineVars>>

\* the counts measurement processes without observable
CountsMeasurements ==
    {[kind |-> "counts", name |-> "CountsMP", wires |-> w, all_outcomes |-> a] :
        w \in {<<>>} \cup WireSeqs, a \in BOOLEAN}

\* sample(observable, shot_range, bin_size, counts=True), as CountsMP's
\* evaluation calls it
SamplesCounts ==
    /\ call = NoCall
    /\ _samples # <<>>
    /\ ~broadcast(_samples)
    /\ \E m \in CountsMeasurements, a \in SampleShotArgs :
           call' = [op |-> "counts", args |-> <<m, a[1], a[2]>>,
                    res |-> sample(m, a[1], a[2], TRUE)]
    /\ UNCHANGED <<wires, shots, _state, _samples, pipelineVars>>

\* the single-qubit observables whose samples are 1 - 2 * bit
PauliObservables ==
    {[name |-> n, wires |-> <<wires[d]>>, factors |-> <<PauliZ_eigs>>,
      parameters |-> <<>>] :
        n \in {"PauliX", "PauliY", "PauliZ", "Hadamard"}, d \in 1..Len(wires)}

\* the shot arguments of a call: none on an analytic device
ObservableShotArgs == IF shots = None THEN {<<<<>>, None>>} ELSE SampleShotArgs

\* sample(observable, shot_range, bin_size): the samples of the observable
SamplesSample ==
    /\ call = NoCall
    /\ _samples # <<>>
    /\ ~broadcast(_samples)
    /\ \E o \in PauliObservables, a \in SampleShotArgs :
           call' = [op |-> "sample", args |-> <<o, a[1], a[2]>>,
                    res |-> sample(o, a[1], a[2], FALSE)]
    /\ UNCHANGED <<wires, shots, _state, _samples, pipelineVars>>

\* expval and var of an observable: on the state of an analytic device, on
\* the drawn buffer of a device with shots
SamplesExpval ==
    /\ call = NoCall
    /\ shots # None => _samples # <<>> /\ ~broadcast(_samples)
    /\ \E o \in PauliObservables, a \in ObservableShotArgs :
           call' = [op |-> "expval", args |-> <<o, a[1], a[2]>>,
                    res |-> expval(o, a[1], a[2])]
    /\ UNCHANGED <<wires, shots, _state, _samples, pipelineVars>>

SamplesVar ==
    /\ call = NoCall
    /\ shots # None => _samples # <<>> /\ ~broadcast(_samples)
    /\ \E o \in PauliObservables, a \in ObservableShotArgs :
           call' = [op |-> "var", args |-> <<o, a[1], a[2]>>,
                    res |-> var(o, a[1], a[2])]
    /\ UNCHANGED <<wires, shots, _state, _samples, pipelineVars>>

\* the measurements and observables that can be sampled: no observable
\* without and with wires, the single-qubit observables of eigenvalues 1 and
\* -1, another observable with eigenvalues, tensor products
SampledObservables ==
    {[name |-> "SampleMP", wires |-> w, factors |-> <<>>, parameters |-> <<>>] :
        w \in {<<>>, <<wires[Len(wires)]>>, <<wires[Len(wires)], wires[1]>>}}
    \cup PauliObservables
    \cup {[name |-> "Hermitian", wires |-> <<wires[1]>>, factors |-> <<Hermitian_eigs>>,
           parameters |-> <<>>]}
    \cup {[name |-> "Tensor", wires |-> <<wires[Len(wires)], wires[1]>>,
           factors |-> f, parameters |-> <<>>] :
              f \in {<<PauliZ_eigs, PauliZ_eigs>>, <<PauliZ_eigs, Hermitian_eigs>>}}

\* SampleMP(obs).process_samples(samples=self._samples, wire_order=self.wires,
\* shot_range, bin_size), as _measure calls it (lines 917-919)
SamplesProcessSamples ==
    /\ call = NoCall
    /\ _samples # <<>>
    /\ ~broadcast(_samples)
    /\ \E o \in SampledObservables, a \in SampleShotArgs :
           call' = [op |-> "process_samples", args |-> <<o, a[1], a[2]>>,
                    res |-> process_samples(o, _samples, wires, a[1], a[2])]
    /\ UNCHANGED <<wires, shots, _state, _samples, pipelineVars>>

NextSamples ==
    \/ SamplesProcessSamples
    \/ SamplesGenerate
    \/ SamplesGenerateBroadcast
    \/ SamplesEstimateProbability
    \/ SamplesCounts
    \/ SamplesSample
    \/ SamplesExpval
    \/ SamplesVar

SpecSamples == InitSamples /\ [][NextSamples]_vars

\* ------------------------------------------------- the classical shadow
\* classical_shadow(obs, circuit) as the loop it is: the call, one snapshot
\* per step, the return; between two invocations the device may draw a sample
\* buffer as an execution does.  obs is [wires, seed]; a circuit is
\* [operations, diagonalizing_gates].
\* The generators: np.random.RandomState(seed) is in a state that the seed
\* fixes, the global np.random in a state that every draw advances.
RandomState_global(seed) == shadow_run.np_random

RandomState(seed) == seed

\* rng.randint(0, 3, size=(n_snapshots, n_qubits)): the table that the state
\* of the generator fixes
randint(rng, n_snapshots, n_qubits) ==
    [t \in 1..n_snapshots |->
        [wire_idx \in 1..n_qubits |-> (rng + (t - 1) * n_qubits + (wire_idx - 1)) % 3]]

\* the state of np.random after a draw
np_random_after(state) == (state + 1) % 3

\* obs_list[recipe].compute_diagonalizing_gates(wires=wire): none for PauliZ
obs_list == <<"PauliX", "PauliY", "PauliZ">>
compute_diagonalizing_gates(recipe, wire) ==
    IF obs_list[recipe + 1] = "PauliZ" THEN <<>>
    ELSE <<[name |-> "diagonalize", of |-> obs_list[recipe + 1], wires |-> <<wire>>]>>

\* the rotations of one snapshot, every wire in the basis of the first
snapshot_rotations_of_first(w, recipes_t) ==
    Concat([wire_idx \in 1..Len(w) |->
               compute_diagonalizing_gates(recipes_t[1], w[wire_idx])])

\* the rotations of one snapshot (lines 1408-1414)
snapshot_rotations(w, recipes_t) ==
    Concat([wire_idx \in 1..Len(w) |->
               compute_diagonalizing_gates(recipes_t[wire_idx], w[wire_idx])])

\* the device wires that the rotations rotate away from the computational basis
rotated_wires(rotations) ==
    [q \in 1..Len(rotations) |-> map_wires(rotations[q].wires)[1]]

ShadowObservables ==
    {[wires |-> w, seed |-> seed] : w \in WireSeqs, seed \in 0..MaxSeed}

\* a circuit without operations, one that flips the first wire, and one that
\* measures an observable on the last wire besides (its diagonalizing gate)
ShadowCircuits ==
    {[operations |-> <<>>, diagonalizing_gates |-> <<>>],
     [operations |-> <<[name |-> "PauliX", wires |-> <<wires[1]>>]>>,
      diagonalizing_gates |-> <<>>],
     [operations |-> <<[name |-> "PauliX", wires |-> <<wires[1]>>]>>,
      diagonalizing_gates |->
          <<[name |-> "diagonalize", of |-> "PauliX", wires |-> <<wires[Len(wires)]>>]>>]}

InitShadow ==
    /\ wires \in {CanonicalWires(PipelineWires), CustomWires(PipelineWires)}
    /\ shots \in 1..MaxShots
    /\ _shot_vector = <<>>
    /\ _state = apply(<<>>, <<>>)
    /\ _samples = <<>>
    /\ _num_executions = 0
    /\ active_return = FALSE
    /\ call = NoCall
    /\ error = NoError
    /\ log = <<>>
    /\ pc = "idle"
    /\ calls = 0
    /\ drawn_in = 0
    /\ shot_changes = 0
    /\ tracker = [active |-> FALSE, recorded |-> <<>>]
    /\ batch = NoBatch
    /\ shadow_run = NoShadow
    /\ tape = NoTape

\* lines 1386-1406: the shots are set to 1 and the recipes are drawn
ShadowCall(obs, circuit) ==
    /\ ~shadow_run.running
    /\ Len(shadow_run.done) < 2
    /\ shots' = 1
    /\ shadow_run' = [shadow_run EXCEPT
           !.running = TRUE, !.obs = obs, !.circuit = circuit,
           !.n_snapshots = shots,
           !.recipes = randint(RandomState(obs.seed), shots, Len(obs.wires)),
           !.outcomes = <<>>, !.t = 0,
           !.trace = <<Event("set_shots", <<1>>)>>]
    /\ call' = [op |-> "classical_shadow", args |-> <<obs, circuit>>, res |-> NoValue]
    /\ UNCHANGED <<wires, _shot_vector, _state, _samples, _num_executions,
                   active_return, error, log, pc, calls, drawn_in, shot_changes,
                   tracker, batch, tape>>

\* one iteration of the loop (lines 1406-1419): the outcome is the row of the
\* single-shot buffer that generate_samples returns, on the mapped wires
ShadowSnapshot ==
    /\ shadow_run.running
    /\ shadow_run.t < shadow_run.n_snapshots
    /\ \E buffer \in samples_of(apply(shadow_run.circuit.operations,
                        rotated_wires(shadow_run.circuit.diagonalizing_gates
                            \o snapshot_rotations(shadow_run.obs.wires,
                                   shadow_run.recipes[shadow_run.t + 1])))) :
           shadow_run' = [shadow_run EXCEPT
               !.t = @ + 1,
               !.outcomes = Append(@,
                   [q \in 1..Len(shadow_run.obs.wires) |->
                       buffer[1][map_wires(shadow_run.obs.wires)[q] + 1]]),
               !.np_random = np_random_after(@),
               !.trace = @ \o <<Event("reset", <<>>),
                                Event("apply",
                                    <<shadow_run.circuit.operations,
                                      shadow_run.circuit.diagonalizing_gates
                                          \o snapshot_rotations(shadow_run.obs.wires,
                                                 shadow_run.recipes[shadow_run.t + 1])>>),
                                Event("generate_samples", <<shots, buffer[1]>>)>>]
    /\ _samples' = <<>>
    /\ drawn_in' = 0
    /\ _state' = apply(shadow_run.circuit.operations,
                       rotated_wires(shadow_run.circuit.diagonalizing_gates
                           \o snapshot_rotations(shadow_run.obs.wires,
                                  shadow_run.recipes[shadow_run.t + 1])))
    /\ UNCHANGED <<wires, shots, _shot_vector, _num_executions, active_return,
                   call, error, log, pc, calls, shot_changes, tracker, batch, tape>>

\* the end of the with block and the return (line 1421): the shots are set
\* back, outcomes and recipes are stacked
ShadowReturn ==
    /\ shadow_run.running
    /\ shadow_run.t = shadow_run.n_snapshots
    /\ shots' = shadow_run.n_snapshots
    /\ call' = [call EXCEPT !.res = <<shadow_run.outcomes, shadow_run.recipes>>]
    /\ shadow_run' = [NoShadow EXCEPT
           !.np_random = shadow_run.np_random,
           !.done = Append(shadow_run.done,
               [obs |-> shadow_run.obs, circuit |-> shadow_run.circuit,
                n_snapshots |-> shadow_run.n_snapshots,
                bits |-> shadow_run.outcomes, recipes |-> shadow_run.recipes,
                trace |-> Append(shadow_run.trace,
                                 Event("set_shots", <<shadow_run.n_snapshots>>))])]
    /\ UNCHANGED <<wires, _shot_vector, _state, _samples, _num_executions,
                   active_return, error, log, pc, calls, drawn_in, shot_changes,
                   tracker, batch, tape>>

\* between two invocations: an execution draws the sample buffer
ShadowBetween ==
    /\ ~shadow_run.running
    /\ Len(shadow_run.done) = 1
    /\ _samples = <<>>
    /\ _samples' \in samples_of(_state)
    /\ shadow_run' = [shadow_run EXCEPT !.np_random = np_random_after(@)]
    /\ UNCHANGED <<wires, shots, _shot_vector, _state, _num_executions,
                   active_return, call, error, log, pc, calls, drawn_in,
                   shot_changes, tracker, batch, tape>>

NextShadow ==
    \/ \E obs \in ShadowObservables, circuit \in ShadowCircuits : ShadowCall(obs, circuit)
    \/ ShadowSnapshot
    \/ ShadowReturn
    \/ ShadowBetween

SpecShadow == InitShadow /\ [][NextShadow]_vars

\* ------------------------------------------------------ evaluating a tape
\* The routines that are given a tape: statistics, _statistics_new and
\* adjoint_jacobian.  The measurement processes and the observables of the
\* tape are objects; the attributes that the routines write are fields of
\* tape.  An attribute that was never set (hasattr is False) holds Unset, an
\* attribute that holds None holds "None".
Unset == "unset"

\* m.obs of a measurement process that has no observable
NoObs == [name |-> "none", wires |-> <<>>, return_type |-> "None", base_name |-> Unset]

\* the observables of the tapes: an operator, a tensor product (it has no
\* base_name), a Hamiltonian; their return_type is None until it is written
TapeObservables ==
    {[name |-> "PauliZ", wires |-> <<wires[1]>>, return_type |-> "None",
      base_name |-> "PauliZ"],
     [name |-> "Tensor", wires |-> wires, return_type |-> "None", base_name |-> Unset],
     [name |-> "Hamiltonian", wires |-> <<wires[1]>>, return_type |-> "None",
      base_name |-> Unset]}

TapeMeasurements ==
    {[kind |-> "expval", obs |-> o, wires |-> <<>>] : o \in TapeObservables}
    \cup {[kind |-> "var", obs |-> o, wires |-> <<>>] :
              o \in {o \in TapeObservables : o.name = "PauliZ"}}
    \cup {[kind |-> k, obs |-> NoObs, wires |-> <<wires[1]>>] :
              k \in {"probs", "process", "notvalid"}}

\* the operations of the tapes: none, one parameter, Rot, its inverse, and
\* another operation of three parameters
TapeOperations ==
    {<<>>} \cup
    {<<[name |-> n, wires |-> <<wires[1]>>, num_params |-> p, inverse |-> i]>> :
        <<n, p, i>> \in {<<"RX", 1, FALSE>>, <<"Rot", 3, FALSE>>,
                         <<"Rot", 3, TRUE>>, <<"U3", 3, FALSE>>}}

Tapes ==
    {[operations |-> ops, measurements |-> ms] :
        ops \in TapeOperations,
        ms \in UNION {[1..k -> TapeMeasurements] : k \in 1..MaxMeasurements}}

\* the circuit as the statistics routines read it: the kind of every
\* measurement, the name and the wires of its observable
circuit_of(t) ==
    [operations |-> t.operations,
     measurements |->
        [i \in 1..Len(t.measurements) |->
            LET m == t.measurements[i]
            IN  [kind |-> m.kind, obs |-> m.obs.name,
                 wires |-> IF m.obs.name = "none" THEN m.wires ELSE m.obs.wires,
                 method_name |-> ""]]]

\* obs.return_type = m.return_type (lines 747-749 and 972-974), written for
\* the measurements up to position upto, where the loop ended
unannotated(measurements, upto) == measurements

annotated(measurements, upto) ==
    [i \in 1..Len(measurements) |->
        IF i <= upto /\ measurements[i].obs.name # "none"
        THEN [measurements[i] EXCEPT !.obs.return_type = measurements[i].kind]
        ELSE measurements[i]]

InitTape ==
    /\ wires \in {CanonicalWires(PipelineWires), CustomWires(PipelineWires)}
    /\ \E setting \in ShotSettings :
           /\ shots = setting.shots
           /\ _shot_vector = setting._shot_vector
    /\ _state = apply(<<>>, <<>>)
    /\ _samples = <<>>
    /\ _num_executions = 0
    /\ active_return = FALSE
    /\ call = NoCall
    /\ error = NoError
    /\ log = <<>>
    /\ pc = "idle"
    /\ calls = 0
    /\ drawn_in = 0
    /\ shot_changes = 0
    /\ tracker = [active |-> FALSE, recorded |-> <<>>]
    /\ batch = NoBatch
    /\ shadow_run = NoShadow
    /\ tape \in Tapes

\* statistics(circuit=tape) or _statistics_new(tape) of a device that has
\* drawn its samples if it has shots (lines 679-874 and 921-1123)
TapeStatisticsOf(name, results) ==
    /\ tape' = [tape EXCEPT !.measurements =
                   annotated(@, IF results.ok THEN Len(@) ELSE results.err.at)]
    /\ call' = [op |-> name, args |-> tape, res |-> results.val]
    /\ error' = results.err
    /\ log' = results.log

TapeStatistics(new) ==
    /\ shots = None \/ _samples # <<>>
    /\ \A i \in 1..Len(tape.measurements) : tape.measurements[i].obs.name # "Hamiltonian"
    /\ IF new
       THEN TapeStatisticsOf("_statistics_new",
                             _statistics_new(circuit_of(tape), <<>>, None))
       ELSE TapeStatisticsOf("statistics", statistics(circuit_of(tape), <<>>, None))
    /\ UNCHANGED <<wires, shots, _shot_vector, _state, _samples, _num_executions,
                   active_return, pc, calls, drawn_in, shot_changes, tracker,
                   batch, shadow_run>>

\* the checks of the loop over tape.measurements (lines 1931-1941)
unsupported_measurement(m) == m.kind # "expval" \/ m.obs.name = "Hamiltonian"

\* the position of the first measurement that the loop rejects, or 0
first_unsupported(measurements) ==
    IF \E i \in 1..Len(measurements) : unsupported_measurement(measurements[i])
    THEN CHOOSE i \in 1..Len(measurements) :
             /\ unsupported_measurement(measurements[i])
             /\ \A q \in 1..(i - 1) : ~unsupported_measurement(measurements[q])
    ELSE 0

\* if not hasattr(m.obs, "base_name"): m.obs.base_name = None (lines
\* 1943-1944), for the measurements that passed the checks before rejected
\* (all of them when rejected is 0)
adjoint_checked(measurements, rejected) ==
    [i \in 1..Len(measurements) |->
        IF (rejected = 0 \/ i < rejected) /\ measurements[i].obs.base_name = Unset
        THEN [measurements[i] EXCEPT !.obs.base_name = "None"]
        ELSE measurements[i]]

\* the operations that the loop over reversed(tape.operations) rejects
\* (lines 1971-1976)
unsupported_operation(op) == op.num_params > 1 /\ (op.name # "Rot" \/ op.inverse)

\* self.reset(); self.execute(tape) (lines 1961-1963): the state of the
\* operations, a new sample buffer when the device has shots, the return
\* types written by statistics, one execution counted
AdjointForward(checked) ==
    /\ calls' = calls + 1
    /\ _state' = apply(tape.operations, <<>>)
    /\ IF shots # None
       THEN /\ _samples' \in samples_of(_state')
            /\ drawn_in' = calls'
       ELSE /\ _samples' = <<>>
            /\ drawn_in' = 0
    /\ _num_executions' = num_executions_after(_num_executions, TRUE)
    /\ tape' = [tape EXCEPT !.measurements = annotated(checked, Len(checked))]

\* adjoint_jacobian(tape, starting_state, use_device_state) (lines 1888-2022)
AdjointJacobian(starting_state, use_device_state) ==
    LET rejected == first_unsupported(tape.measurements)
        checked == adjoint_checked(tape.measurements, rejected)
        forward == starting_state = <<>> /\ ~use_device_state
        n_params == SumOver(1..Len(tape.operations),
                            [o \in 1..Len(tape.operations) |->
                                tape.operations[o].num_params])
        late == \E o \in 1..Len(tape.operations) :
                    unsupported_operation(tape.operations[o])
        jac == ndarray(<<<<"observable", Len(tape.measurements)>>,
                         <<"parameter", n_params>>>>, "state")
        warning == IF shots # None THEN <<Event("warn", <<>>)>> ELSE <<>>
    IN  /\ pc = "idle"
        /\ call' = [op |-> "adjoint_jacobian",
                    args |-> <<tape, starting_state, use_device_state>>,
                    res |-> IF rejected # 0 \/ _shot_vector # <<>> \/ late
                            THEN NoValue ELSE jac]
        /\ IF rejected # 0 \/ _shot_vector # <<>>
           THEN \* lines 1933-1947
                /\ error' = [Raise("QuantumFunctionError", "adjoint_jacobian").err
                                EXCEPT !.at = rejected]
                /\ log' = <<>>
                /\ tape' = [tape EXCEPT !.measurements = checked]
                /\ UNCHANGED <<_state, _samples, _num_executions, calls, drawn_in>>
           ELSE /\ IF forward
                   THEN /\ calls < MaxCalls
                        /\ AdjointForward(checked)
                        /\ log' = warning \o <<Event("reset", <<>>),
                                               Event("execute", <<>>)>>
                   ELSE /\ tape' = [tape EXCEPT !.measurements = checked]
                        /\ log' = warning
                        /\ UNCHANGED <<_state, _samples, _num_executions, calls,
                                       drawn_in>>
                /\ error' = IF late
                            THEN Raise("QuantumFunctionError", "operation").err
                            ELSE NoError
        /\ UNCHANGED <<wires, shots, _shot_vector, active_return, pc, shot_changes,
                       tracker, batch, shadow_run>>

\* access_state(wires) called on a device of the given capability
AccessState(capability, exposed, w) ==
    LET r == access_state_on(capability, exposed, w)
    IN  /\ pc = "idle"
        /\ call' = [op |-> "access_state", args |-> <<capability, exposed, w>>,
                    res |-> r.val]
        /\ error' = r.err
        /\ log' = <<>>
        /\ UNCHANGED <<wires, shots, _shot_vector, _state, _samples,
                       _num_executions, active_return, pc, calls, drawn_in,
                       shot_changes, tracker, batch, shadow_run, tape>>

NextTape ==
    \/ \E capability, exposed \in BOOLEAN, w \in {<<>>} \cup WireSeqs :
           AccessState(capability, exposed, w)
    \/ \E new \in BOOLEAN : TapeStatistics(new)
    \/ \E starting_state \in {<<>>, <<_state>>}, use_device_state \in BOOLEAN :
           AdjointJacobian(starting_state, use_device_state)

SpecTape == InitTape /\ [][NextTape]_vars

\* ------------------------------------------------ claims on the execution
\* the measurements of the circuit that execute was called with
Measured == IF call.op = "execute" THEN call.args.measurements ELSE <<>>

Logged(name) == \E q \in 1..Len(log) : log[q].name = name

StatisticsCalled == Logged("statistics") \/ Logged("_statistics_new")

\* the calls of statistics and _statistics_new of the execution, in order
PassedRanges ==
    SelectSeq(log, LAMBDA event : event.name \in {"statistics", "_statistics_new"})

\* C4: in an execution with a shot vector the shot ranges [s1, s2) passed to
\* statistics and _statistics_new, one per entry in order, start at 0, end
\* at s2 = s1 + shots * copies, each start where the one before ended, come
\* with bin_size = shots of the entry, and the last s2 is the number of rows of
\* the sample buffer, the sum of shots * copies.
C4_ShotVectorPartition ==
    (pc = "returned" /\ _shot_vector # <<>>) =>
        LET ranges == PassedRanges
            last == Len(_shot_vector)
        IN  /\ Len(ranges) <= last
            /\ \A n \in 1..Len(ranges) :
                   /\ Len(ranges[n].args) = 3
                   /\ ranges[n].args[1] = IF n = 1 THEN 0 ELSE ranges[n - 1].args[2]
                   /\ ranges[n].args[2] = ranges[n].args[1]
                          + _shot_vector[n].shots * _shot_vector[n].copies
                   /\ ranges[n].args[3] = _shot_vector[n].shots
            /\ error = NoError =>
                   /\ Len(ranges) = last
                   /\ ranges[last].args[2] = TotalShots(_shot_vector)
                   /\ _samples # <<>> => Len(_samples) = ranges[last].args[2]

C4_Witness ==
    /\ pc = "returned"
    /\ error = NoError
    /\ Len(_shot_vector) = 2
    /\ _shot_vector[2].copies > 1
    /\ Len(PassedRanges) = 2
    /\ Len(_samples) = PassedRanges[2].args[2]

\* the shot-vector entry and the copy of every entry of the returned tuple
RECURSIVE EntryCopies(_)
EntryCopies(n) ==
    IF n = 0 THEN <<>>
    ELSE EntryCopies(n - 1) \o [c \in 1..(_shot_vector[n].copies) |-> <<n, c - 1>>]

\* x is the result of measurement m for the copy slot[2] of the entry slot[1]
IsResultOf(x, m, slot) ==
    /\ x.m = m
    /\ x.e = slot[1]
    /\ \A q \in 1..Len(x.axes) : x.axes[q][1] # "copy"
    /\ \A q \in 1..Len(x.at) : x.at[q] = <<"copy", slot[2]>>
    /\ _shot_vector[slot[1]].copies > 1 => x.at # <<>>

\* C5: shot_vec_statistics returns a tuple with sum(copies) entries, ordered
\* by shot-vector entry and then by copy; with several measurements every
\* entry is a tuple of one result per measurement in measurement order, the
\* Counts results being the dictionaries.
C5_ShotVectorResultOrder ==
    (pc = "returned" /\ active_return /\ _shot_vector # <<>> /\ error = NoError) =>
        LET slots == EntryCopies(Len(_shot_vector))
            entries == call.res.items
        IN  /\ call.res.kind = "tuple"
            /\ Len(entries) = Len(slots)
            /\ \A p \in 1..Len(slots) :
                   IF Len(Measured) = 1 THEN IsResultOf(entries[p], 1, slots[p])
                   ELSE /\ entries[p].kind = "tuple"
                        /\ Len(entries[p].items) = Len(Measured)
                        /\ \A j \in 1..Len(Measured) :
                               /\ IsResultOf(entries[p].items[j], j, slots[p])
                               /\ CountsMP(Measured[j]) => entries[p].items[j].kind = "dict"

\* a circuit of several measurements with a State, ClassicalShadow or
\* ShadowExpval measurement has been given to statistics or _statistics_new
CombinesExclusive ==
    /\ pc = "returned"
    /\ StatisticsCalled
    /\ Len(Measured) > 1
    /\ \E k \in 1..Len(Measured) : Measured[k].kind \in ExclusiveKinds

FirstExclusive ==
    CHOOSE k \in 1..Len(Measured) :
        /\ Measured[k].kind \in ExclusiveKinds
        /\ \A j \in 1..(k - 1) : Measured[j].kind \notin ExclusiveKinds

\* C6 as stated: statistics and _statistics_new raise QuantumFunctionError and
\* return no results for every list of several measurements that holds a
\* State, ClassicalShadow or ShadowExpval measurement, at whatever position.
C6_ExclusiveKindsRaiseQuantumFunctionError ==
    CombinesExclusive => error.type = "QuantumFunctionError" /\ call.res = NoValue

\* C6: statistics and _statistics_new raise and return no results for every
\* list of several measurements that holds a State, ClassicalShadow or
\* ShadowExpval measurement, at whatever position; the exception is the
\* QuantumFunctionError of that measurement unless a measurement in front of
\* it in the list raised.
C6_ExclusiveKindsRaise ==
    CombinesExclusive =>
        /\ call.res = NoValue
        /\ \/ /\ error.type = "QuantumFunctionError"
              /\ error.in = "combination"
              /\ error.at = FirstExclusive
           \/ /\ error # NoError
              /\ error.at \in 1..(FirstExclusive - 1)

C6_Witness ==
    /\ CombinesExclusive
    /\ FirstExclusive = 2
    /\ error.in = "combination"
    /\ error.at = 2

\* execute was called with a circuit of several measurements, one of them a
\* ClassicalShadow or ShadowExpval measurement, and is over
CombinesShadow ==
    /\ pc = "returned"
    /\ Len(Measured) > 1
    /\ \E k \in 1..Len(Measured) : Measured[k].kind \in ShadowKinds

FirstShadow ==
    CHOOSE k \in 1..Len(Measured) :
        /\ Measured[k].kind \in ShadowKinds
        /\ \A j \in 1..(k - 1) : Measured[j].kind \notin ShadowKinds

C8_EntropyRejected ==
    ( /\ pc = "returned"
      /\ StatisticsCalled
      /\ \E k \in 1..Len(Measured) : Measured[k].kind \in EntropyKinds
      /\ wires # CanonicalWires(Len(wires)) \/ _shot_vector # <<>> )
    => error # NoError /\ call.res = NoValue

\* sample, counts, or a SampleMeasurement without a method of the device
SampleBased(m) ==
    \/ m.kind \in {"sample", "counts"}
    \/ m.kind = "customsample" /\ m.method_name \notin DeviceMethods

\* C9: an execution with a sample-based measurement on a device with
\* shots=None fails and gives no result, in execute and in _execute_new,
\* whatever the device executed before.
C9_SamplingNeedsShots ==
    ( /\ pc = "returned"
      /\ shots = None
      /\ \E k \in 1..Len(Measured) : SampleBased(Measured[k]) )
    => error # NoError /\ call.res = NoValue

\* C10: in a sequence of execute and reset calls, the sample buffer of the
\* device when execute returns is empty or was drawn in this call of execute,
\* and every change of the buffer replaces it as a whole: by None, or by the
\* samples that execute draws.
C10_SampleBufferReplaced ==
    /\ [](pc = "returned" /\ error = NoError /\ shot_changes = 0
            => _samples = <<>> \/ drawn_in = calls)
    /\ [][_samples' # _samples =>
            \/ _samples' = <<>> /\ drawn_in' = 0
            \/ /\ pc = "idle"
               /\ calls' = calls + 1
               /\ drawn_in' = calls'
               /\ Len(_samples') = shots]_vars

C10_Witness ==
    /\ pc = "returned"
    /\ error = NoError
    /\ shot_changes = 0
    /\ calls = 2
    /\ _samples # <<>>
    /\ drawn_in = 2

\* -------------------------------------- claims on the counter and the tracker
\* execute returns its results in this step
ExecuteReturned == pc = "statistics" /\ pc' = "returned" /\ error' = NoError

\* the record of an execution: executions=1, the shots of the device and the
\* results that the call returns
ExecutionRecord == [executions |-> 1, shots |-> shots', results |-> call'.res]

\* C11: every call of execute and _execute_new that returns adds exactly 1 to
\* the execution counter, no step makes the counter smaller or adds to it
\* otherwise, an active tracker records in that call executions=1, the shots
\* of the device and exactly the results returned, and a tracker that is not
\* active records nothing.
C11_ExecutionCounter ==
    [][/\ _num_executions' >= _num_executions
       /\ ExecuteReturned => _num_executions' = _num_executions + 1
       /\ ~ExecuteReturned => _num_executions' = _num_executions
       /\ ExecuteReturned /\ tracker.active =>
              tracker'.recorded = Append(tracker.recorded, ExecutionRecord)
       /\ ~tracker'.active => tracker'.recorded = <<>>]_vars

\* the second execution of a device with an active tracker has returned
C11_Witness ==
    /\ pc = "returned"
    /\ error = NoError
    /\ tracker.active
    /\ _num_executions = 2
    /\ tracker.recorded = <<[executions |-> 1, shots |-> shots, results |-> call.res]>>

\* ------------------------------------------------ claims on batch_execute
\* the calls that batch_execute has made are reset, execute, reset, execute ...
\* and the q-th execute was called with the q-th circuit
AlternatingTrace ==
    \A q \in 1..Len(batch.trace) :
        IF q % 2 = 1 THEN batch.trace[q].name = "reset"
        ELSE /\ batch.trace[q].name = "execute"
             /\ batch.trace[q].circuit = batch.circuits[q \div 2]
             /\ batch.results[q \div 2] = batch.trace[q].res

BatchReturned == pc = "batch_returned" /\ error = NoError

\* C12: batch_execute and _batch_execute_new call reset once right before the
\* execution of every circuit, execute the circuits one at a time in the order
\* given, and return a list with one result per circuit in that order; the
\* execution counter has grown by len(circuits), and an active tracker has
\* recorded, after the record of the last circuit, one batch with
\* batch_len = len(circuits).
C12_BatchExecution ==
    /\ [](batch.running =>
            /\ AlternatingTrace
            /\ Len(batch.results) = batch.i
            /\ (pc \in {"statistics", "returned"} =>
                    /\ call.args = batch.circuits[batch.i + 1]
                    /\ Len(batch.trace) = 2 * batch.i + 1))
    /\ [](BatchReturned =>
            /\ Len(call.res) = Len(call.args)
            /\ call.res = batch.results
            /\ Len(batch.trace) = 2 * Len(call.args)
            /\ _num_executions = batch.start + Len(call.args)
            /\ IF tracker.active
               THEN /\ Len(tracker.recorded) = Len(call.args) + 1
                    /\ tracker.recorded[Len(tracker.recorded)] =
                           [batches |-> 1, batch_len |-> Len(call.args)]
                    /\ \A k \in 1..Len(call.args) :
                           tracker.recorded[k] = [executions |-> 1, shots |-> shots,
                                                  results |-> call.res[k]]
               ELSE tracker.recorded = <<>>)
    /\ [][batch.running /\ pc = "idle" /\ pc' # "idle" =>
              /\ _samples = <<>>
              /\ batch.trace[Len(batch.trace)].name = "reset"]_vars

\* a batch of two circuits with different results has returned, the tracker
\* active
C12_Witness ==
    /\ BatchReturned
    /\ tracker.active
    /\ Len(call.args) = 2
    /\ call.res[1] # call.res[2]

\* ------------------------------------------- claims on the phases of execute
\* the phase of execute that makes a call of the log
Phase(name) ==
    CASE name = "check_validity" -> 1
      [] name = "apply" -> 2
      [] name = "generate_samples" -> 3
      [] name = "results" -> 5
      [] name = "_num_executions" -> 6
      [] name = "tracker.record" -> 7
      [] OTHER -> 4

PhasesInOrder ==
    \A q \in 1..Len(log) : \A r \in (q + 1)..Len(log) :
        /\ Phase(log[q].name) <= Phase(log[r].name)
        /\ Phase(log[q].name) # 4 => Phase(log[q].name) < Phase(log[r].name)

\* the position in the log of the call that counts the execution (0: none)
CountedAt ==
    IF Logged("_num_executions")
    THEN CHOOSE q \in 1..Len(log) : log[q].name = "_num_executions"
    ELSE 0

\* every measurement of the circuit was evaluated before the execution was counted
AllMeasuredBeforeCounted ==
    /\ CountedAt # 0
    /\ \A i \in 1..Len(Measured) :
           \E q \in 1..(CountedAt - 1) : log[q] = Event("measure", <<i>>)
    /\ log[CountedAt - 1].name = "results"

\* C13: within one call of execute the steps are made in the order validity
\* check, apply, generation of the sample buffer (the buffer is drawn if and
\* only if the device has finite shots), evaluation of the measurements,
\* normalisation of the results, increment of the counter, record of the
\* tracker; no phase is entered again after a later one, and the counter is
\* incremented only after every measurement was evaluated.
C13_ExecutionPhaseOrder ==
    /\ [](call.op = "execute" =>
            /\ PhasesInOrder
            /\ log[1].name = "check_validity"
            /\ log[2].name = "apply")
    /\ [](call.op = "execute" /\ (pc = "statistics" \/ error = NoError) =>
            /\ Logged("generate_samples") <=> shots # None
            /\ pc = "statistics" => (drawn_in = calls <=> shots # None))
    /\ [](call.op = "execute" /\ pc = "returned" /\ error = NoError =>
            /\ AllMeasuredBeforeCounted
            /\ tracker.active <=> log[Len(log)].name = "tracker.record")
    /\ [][_num_executions' # _num_executions => AllMeasuredBeforeCounted']_vars

\* a second execution with two measurements on a device with finite shots has
\* returned, the first execution having left its sample buffer behind
C13_Witness ==
    /\ call.op = "execute"
    /\ pc = "returned"
    /\ error = NoError
    /\ calls = 2
    /\ shots # None
    /\ drawn_in = calls
    /\ Len(Measured) = 2
    /\ tracker.active

\* ------------------------------------- claims on the custom measurements
\* the measurement has no return type and the device has the attribute that
\* its method_name names
Overridden(m) ==
    /\ SampleMeasurement(m) \/ StateMeasurement(m) \/ MeasurementTransform(m)
    /\ m.method_name \in DeviceMethods

GenericCalls == {"process", "process_state", "process_samples"}

\* the parts of a result that are not made of other results
RECURSIVE Leaves(_)
Leaves(v) ==
    IF Len(v.items) = 0 THEN {v}
    ELSE UNION {Leaves(v.items[c]) : c \in 1..Len(v.items)}

\* the parts of the returned results that came of the measurement at position i
LeavesOf(i) == {v \in Leaves(call.res) : v.m = i}

\* C14: for a MeasurementTransform and a custom SampleMeasurement or
\* StateMeasurement whose method_name names an attribute of the device, the
\* evaluation of the measurement calls that device method and nothing else,
\* neither process, process_state nor process_samples, uses what the method
\* returned as the result, and raises nothing, the shots of the device being
\* None or not.
C14_DeviceOverridePreferred ==
    /\ \A q \in 1..Len(log) :
           log[q].name = "measure" /\ Overridden(Measured[log[q].args[1]]) =>
               /\ q < Len(log)
               /\ log[q + 1] = Event("method", log[q].args)
               /\ \A r \in 1..Len(log) :
                      log[r].args = log[q].args => log[r].name \notin GenericCalls
               /\ error.at # log[q].args[1]
    /\ call.op = "execute" /\ pc = "returned" /\ error = NoError =>
           \A i \in 1..Len(Measured) :
               Overridden(Measured[i]) =>
                   /\ LeavesOf(i) # {}
                   /\ \A v \in LeavesOf(i) : v.of = "method"

\* an overridden custom SampleMeasurement was executed on a device with
\* shots=None and its result returned
C14_Witness ==
    /\ call.op = "execute"
    /\ pc = "returned"
    /\ error = NoError
    /\ shots = None
    /\ Len(Measured) = 1
    /\ Measured[1].kind = "customsample"
    /\ Overridden(Measured[1])
    /\ call.res.of = "method"

\* the measurement goes through _measure and the device has no method for it
Generic(m) ==
    /\ SampleMeasurement(m) \/ StateMeasurement(m)
    /\ m.method_name \notin DeviceMethods

\* the generic evaluations made for the measurement at position i, in order
EvaluationsOf(i) ==
    SelectSeq(log, LAMBDA event : event.name \in GenericCalls /\ event.args = <<i>>)

\* C15: without a device method, a measurement that supports sampled
\* evaluation is evaluated by process_samples whenever the device has finite
\* shots, and a measurement that supports state evaluation by process_state
\* when the device has shots=None, also when the measurement supports both.
C15_GenericPathByShots ==
    call.op = "execute" /\ pc = "returned" /\ error = NoError =>
        \A i \in 1..Len(Measured) :
            Generic(Measured[i]) =>
                /\ EvaluationsOf(i) # <<>>
                /\ shots # None /\ SampleMeasurement(Measured[i]) =>
                       \A q \in 1..Len(EvaluationsOf(i)) :
                           EvaluationsOf(i)[q].name = "process_samples"
                /\ shots = None /\ StateMeasurement(Measured[i]) =>
                       \A q \in 1..Len(EvaluationsOf(i)) :
                           EvaluationsOf(i)[q].name = "process_state"

\* ---------------------------- claims on the analytic kinds under finite shots
\* State, VnEntropy, MutualInfo, or a custom StateMeasurement that the device
\* has no method for
AnalyticOnly(m) ==
    \/ m.kind \in {"state"} \cup EntropyKinds
    \/ StateMeasurement(m) /\ m.method_name \notin DeviceMethods

\* the measurement at position i is one of these and passes the checks that
\* its kind makes whatever the shots: State is the only measurement of the
\* circuit, the entropies find the wire labels 0, ..., N-1
Admitted(i) ==
    /\ AnalyticOnly(Measured[i])
    /\ Measured[i].kind = "state" => Len(Measured) = 1
    /\ Measured[i].kind \in EntropyKinds => wires = CanonicalWires(Len(wires))

WarningsOf(i) == SelectSeq(log, LAMBDA event : event = Event("warn", <<i>>))

\* the measurement at position i raised nothing, and if the execution
\* returned then with n warnings for it and its value computed from the state
AnalyticWithWarnings(i, n) ==
    /\ error.at # i
    /\ error = NoError =>
           /\ Len(WarningsOf(i)) = n
           /\ LeavesOf(i) # {}
           /\ \A v \in LeavesOf(i) : v.of = "state" /\ v.from = 0

InRange(buffer, shot_range) ==
    IF shot_range = <<>> THEN 1..Len(buffer) ELSE (shot_range[1] + 1)..shot_range[2]

\* the positions among ts where the sample spells the basis state s on wires w
Spelling(buffer, ts, w, s) == {t \in ts : SpelledOn(BitsToIndex(buffer[t]), w) = s}

\* the rows of the buffer and of the result: one, or one per broadcast row
BufferRows == IF broadcast(_samples) THEN DOMAIN _samples ELSE {0}
BufferRow(i) == IF broadcast(_samples) THEN _samples[i] ELSE _samples
ResultRow(i) == IF broadcast(_samples) THEN call.res[i] ELSE call.res

\* frequencies is one relative frequency count / n per basis state of dim,
\* they sum to 1, and the basis states not in sampled are at 0
Normalized(frequencies, dim, n, sampled) ==
    /\ DOMAIN frequencies = 0..(dim - 1)
    /\ \A s \in 0..(dim - 1) :
           /\ frequencies[s][2] = n
           /\ s \notin sampled => frequencies[s][1] = 0
    /\ n > 0
    /\ SumTo([s \in 0..(dim - 1) |-> frequencies[s][1]], dim) = n

\* the basis states that the samples of the positions ts spell on wires w
Sampled(buffer, ts, w) ==
    {s \in 0..(Pow2(Len(w)) - 1) : Spelling(buffer, ts, w, s) # {}}

NormalizedEstimate(prob, buffer, w, shot_range, bin_size) ==
    IF bin_size = None
    THEN Normalized(prob, Pow2(Len(w)), Cardinality(InRange(buffer, shot_range)),
                    Sampled(buffer, InRange(buffer, shot_range), w))
    ELSE /\ DOMAIN prob = 0..(Pow2(Len(w)) - 1)
         /\ \A s \in DOMAIN prob :
                DOMAIN prob[s] =
                    0..((Cardinality(InRange(buffer, shot_range)) \div bin_size) - 1)
         /\ \A b \in DOMAIN prob[0] :
                Normalized([s \in DOMAIN prob |-> prob[s][b]], Pow2(Len(w)), bin_size,
                           Sampled(buffer, InRange(buffer, shot_range), w))

\* C17: estimate_probability returns one slot per basis state of the wires,
\* 2^|wires| in all, the slot of a basis state that no sample of the shot
\* range spells is 0, and the slots are relative frequencies count / N that
\* sum to 1; with a bin_size that divides the number of samples of the shot
\* range there is one column per bin, and in every column the counts sum to
\* bin_size, so that the column sums to 1.
C17_EstimateNormalized ==
    call.op = "estimate_probability" =>
        \A i \in BufferRows :
            NormalizedEstimate(ResultRow(i), BufferRow(i),
                               call.args[1], call.args[2], call.args[3])

\* the estimate over a part of the buffer in two bins on one of two wires,
\* with a basis state that was not sampled
C17_Witness ==
    /\ call.op = "estimate_probability"
    /\ ~broadcast(_samples)
    /\ Len(call.args[1]) = 1
    /\ call.args[2] = <<1, 3>>
    /\ call.args[3] = 1
    /\ call.res[1] = [b \in 0..1 |-> <<0, 1>>]

\* the buffer positions, counted from 1, of bin j of size b in a shot range
\* that starts at s1: the samples s1 + j*b, ..., s1 + (j+1)*b - 1
BinPositions(s1, b, j) == (s1 + j * b + 1)..(s1 + (j + 1) * b)

RangeStart(shot_range) == IF shot_range = <<>> THEN 0 ELSE shot_range[1]

ContiguousBins(prob, buffer, w, shot_range, bin_size) ==
    \A s \in DOMAIN prob : \A j \in DOMAIN prob[s] :
        prob[s][j] =
            <<Cardinality(Spelling(buffer, BinPositions(RangeStart(shot_range), bin_size, j),
                                   w, s)),
              bin_size>>

\* C18: estimate_probability with the shot range [s1, s2) and the bin size b
\* counts in bin j exactly the samples at the buffer positions s1 + j*b, ...,
\* s1 + (j+1)*b - 1, for every row of a buffer with a broadcast axis by
\* itself: no sample outside the shot range or of another bin counts in bin j.
C18_BinsAreContiguous ==
    call.op = "estimate_probability" /\ call.args[3] # None =>
        \A i \in BufferRows :
            ContiguousBins(ResultRow(i), BufferRow(i),
                           call.args[1], call.args[2], call.args[3])

\* two bins of two samples in a buffer with a broadcast axis, the samples of
\* the first bin of the second row both 1 on the wire, those of its second bin
\* both 0
C18_Witness ==
    /\ call.op = "estimate_probability"
    /\ broadcast(_samples)
    /\ Len(call.args[1]) = 1
    /\ call.args[2] = <<0, 4>>
    /\ call.args[3] = 2
    /\ call.res[1][1] = [j \in 0..1 |-> IF j = 0 THEN <<2, 2>> ELSE <<0, 2>>]
    /\ call.res[0] # call.res[1]

\* the wires a counts measurement counts on: its own, or all device wires
CountedWires(m) == IF m.wires = <<>> THEN wires ELSE m.wires

\* the strings of n characters "0" and "1"
BitStrings(n) == [1..n -> {"0", "1"}]

\* the bit-strings that the samples at the positions ts spell on wires w
Observed(ts, w) ==
    {k \in BitStrings(Len(w)) :
        \E t \in ts : \A c \in 1..Len(w) :
            (k[c] = "1") <=> (_samples[t][map_wires(w)[c] + 1] = 1)}

\* the mapping d for the samples at the positions ts is complete
CompleteCounts(d, m, ts) ==
    IF m.all_outcomes
    THEN /\ DOMAIN d = BitStrings(Len(CountedWires(m)))
         /\ Cardinality(DOMAIN d) = Pow2(Len(CountedWires(m)))
         /\ SumOver(DOMAIN d, d) = Cardinality(ts)
    ELSE /\ DOMAIN d = Observed(ts, CountedWires(m))
         /\ \A k \in DOMAIN d : d[k] # 0

\* C19: counts without observable on n wires (all device wires when none is
\* named) returns, with the all-outcomes flag, a mapping whose keys are the
\* 2^n bit-strings of n characters and whose values sum to the number of
\* samples counted: the samples of the shot range, or bin_size for each of
\* the per-bin mappings; without the flag the keys are exactly the outcomes
\* the counted samples show, and no value is 0.
C19_CountsComplete ==
    call.op = "counts" =>
        IF call.args[3] = None
        THEN CompleteCounts(call.res, call.args[1], InRange(_samples, call.args[2]))
        ELSE /\ Len(call.res) * call.args[3] =
                    Cardinality(InRange(_samples, call.args[2]))
             /\ \A b \in 1..Len(call.res) :
                    CompleteCounts(call.res[b], call.args[1],
                        BinPositions(RangeStart(call.args[2]), call.args[3], b - 1))

\* counts with all outcomes on both wires in two bins of two samples: the
\* first bin holds one outcome twice, the other three at 0
C19_Witness ==
    /\ call.op = "counts"
    /\ call.args[1].all_outcomes
    /\ call.args[1].wires = <<>>
    /\ call.args[2] = <<>>
    /\ call.args[3] = 2
    /\ shots = 4
    /\ \E k \in DOMAIN call.res[1] : call.res[1][k] = 2
    /\ \E k \in DOMAIN call.res[1] : call.res[1][k] = 0

\* the positions of the shot range whose samples show bit 1, bit 0 on the
\* wire of the observable o: outcome -1, outcome +1
Minus(ts, o) == {t \in ts : _samples[t][map_wires(o.wires)[1] + 1] = 1}
Plus(ts, o) == {t \in ts : _samples[t][map_wires(o.wires)[1] + 1] = 0}

\* the number of values a call with bins returns, and the positions of the
\* samples that its j-th value is computed from: all of the shot range, or
\* one sample of every row of the bin_size x num_bins samples
NumBins(shot_range, bin_size) ==
    Cardinality(InRange(_samples, shot_range)) \div bin_size
Averaged(shot_range, bin_size, j) ==
    IF bin_size = None THEN InRange(_samples, shot_range)
    ELSE {RangeStart(shot_range) + (r - 1) * NumBins(shot_range, bin_size) + j :
             r \in 1..bin_size}
ValueIndices(shot_range, bin_size) ==
    IF bin_size = None THEN {1} ELSE 1..NumBins(shot_range, bin_size)
ValueAt(res, shot_range, bin_size, j) ==
    IF bin_size = None \/ NumBins(shot_range, bin_size) = 1 THEN res ELSE res[j]

\* the samples are 1 - 2 * bit of the wire of the observable
SampledValues(res, o, shot_range, bin_size) ==
    IF bin_size = None
    THEN /\ Len(res) = Cardinality(InRange(_samples, shot_range))
         /\ \A t \in 1..Len(res) :
                res[t] = 1 - 2 * _samples[RangeStart(shot_range) + t][map_wires(o.wires)[1] + 1]
    ELSE /\ Len(res) = bin_size
         /\ \A r \in 1..bin_size :
                /\ Len(res[r]) = NumBins(shot_range, bin_size)
                /\ \A j \in 1..Len(res[r]) :
                       res[r][j] =
                           1 - 2 * _samples[RangeStart(shot_range)
                                               + (r - 1) * NumBins(shot_range, bin_size)
                                               + j][map_wires(o.wires)[1] + 1]

\* e = (N - 2 * n_minus) / N = 2 * p - 1, p = n_plus / N
SampledExpval(e, ts, o) ==
    /\ e = <<Cardinality(ts) - 2 * Cardinality(Minus(ts, o)), Cardinality(ts)>>
    /\ e[1] = 2 * Cardinality(Plus(ts, o)) - e[2]

\* v = 1 - (2 * p - 1)^2, p = n_plus / N
SampledVar(v, ts, o) ==
    v[1] * Cardinality(ts) * Cardinality(ts) =
        v[2] * (Cardinality(ts) * Cardinality(ts)
                  - (2 * Cardinality(Plus(ts, o)) - Cardinality(ts))
                      * (2 * Cardinality(Plus(ts, o)) - Cardinality(ts)))

\* the weight of the outcome +1 of o in the state, and the total weight
PlusWeight(o) ==
    SumOver({b \in DOMAIN _state : SpelledOn(b, o.wires) = 0}, _state)
TotalWeight == SumOver(DOMAIN _state, _state)

\* C20: for a single-qubit Pauli or Hadamard observable the samples are
\* 1 - 2 * bit of its wire; the sampled expectation value of N samples of
\* which n_minus show bit 1 is (N - 2 * n_minus) / N = 2p - 1 with p the
\* frequency of +1 among them, and their sampled variance is 1 - (2p - 1)^2;
\* on an analytic device the expectation value is 2p - 1 and the variance
\* 1 - (2p - 1)^2 with p the probability of +1 in the state; after PauliX on
\* the first wire every sample of an observable on that wire is -1.
C20_PauliExpvalVarConsistent ==
    /\ call.op = "sample" =>
           /\ SampledValues(call.res, call.args[1], call.args[2], call.args[3])
           /\ (/\ _state = apply(<<[name |-> "PauliX", wires |-> <<wires[1]>>]>>, <<>>)
               /\ call.args[1].wires = <<wires[1]>>
               /\ call.args[3] = None) =>
                  \A t \in 1..Len(call.res) : call.res[t] = -1
    /\ call.op = "expval" =>
           IF shots = None
           THEN call.res = 2 * PlusWeight(call.args[1]) - TotalWeight
           ELSE \A j \in ValueIndices(call.args[2], call.args[3]) :
                    SampledExpval(ValueAt(call.res, call.args[2], call.args[3], j),
                                  Averaged(call.args[2], call.args[3], j), call.args[1])
    /\ call.op = "var" =>
           IF shots = None
           THEN call.res = TotalWeight * TotalWeight
                               - (2 * PlusWeight(call.args[1]) - TotalWeight)
                                   * (2 * PlusWeight(call.args[1]) - TotalWeight)
           ELSE \A j \in ValueIndices(call.args[2], call.args[3]) :
                    SampledVar(ValueAt(call.res, call.args[2], call.args[3], j),
                               Averaged(call.args[2], call.args[3], j), call.args[1])

\* the variance of four samples of which one is -1: p = 3/4 and
\* 1 - (2p - 1)^2 = 3/4
C20_Witness ==
    /\ call.op = "var"
    /\ shots = 4
    /\ call.args[2] = <<>>
    /\ call.args[3] = None
    /\ Cardinality(Minus(1..4, call.args[1])) = 1
    /\ call.res[1] * 4 = call.res[2] * 3

\* the value of the bits read with the first as the most significant:
\* bits[1] * 2^(n-1) + ... + bits[n] * 2^0
BigEndianValue(bits) ==
    SumOver(1..Len(bits), [c \in 1..Len(bits) |-> bits[c] * Pow2(Len(bits) - c)])

\* bits is a vector of n bits
BitVector(bits, n) == Len(bits) = n /\ \A c \in 1..n : bits[c] \in {0, 1}

\* C21: states_to_binary(i, n) is the big-endian representation of i in n
\* bits, first bit most significant, and weighting its bits with the powers
\* 2^(n-1), ..., 2^0 gives i back; the index of a vector of n bits converts
\* back to the same bits; row i of generate_basis_states(n) is the
\* representation of i.
C21_BasisConversionRoundTrip ==
    /\ call.op = "states_to_binary" =>
           /\ BitVector(call.res, call.args[2])
           /\ BigEndianValue(call.res) = call.args[1]
           /\ BitsToIndex(call.res) = call.args[1]
    /\ call.op = "powers_of_two" =>
           /\ call.res = BigEndianValue(call.args[1])
           /\ call.res \in 0..(Pow2(call.args[2]) - 1)
           /\ states_to_binary(call.res, call.args[2]) = call.args[1]
    /\ call.op = "generate_basis_states" =>
           /\ DOMAIN call.res = 0..(Pow2(call.args[1]) - 1)
           /\ \A i \in DOMAIN call.res :
                  /\ BitVector(call.res[i], call.args[1])
                  /\ BigEndianValue(call.res[i]) = i

\* the basis state 6 of ten wires: 0000000110
C21_Witness ==
    /\ call.op = "states_to_binary"
    /\ call.args = <<6, 10>>
    /\ call.res = <<0, 0, 0, 0, 0, 0, 0, 1, 1, 0>>

\* two invocations of classical_shadow with the same seed, the same number of
\* snapshots and the same measured wires
SameShadow(a, b) ==
    /\ a.obs.seed = b.obs.seed
    /\ a.n_snapshots = b.n_snapshots
    /\ a.obs.wires = b.obs.wires

\* table has the shape (rows, n) and its entries are in values
ShadowTable(table, rows, n, values) ==
    /\ Len(table) = rows
    /\ \A t \in 1..rows : Len(table[t]) = n /\ \A q \in 1..n : table[t][q] \in values

\* C22: two invocations of classical_shadow with the same seed, the same
\* number of shots T and the same measured wires return the same recipes,
\* whatever the circuits, the outcomes sampled and the draws in between; the
\* recipes are T rows of one entry in 0..2 per measured wire, the bits T rows
\* of one entry in 0..1 per measured wire.
C22_ShadowRecipesReproducible ==
    /\ \A i, j \in 1..Len(shadow_run.done) :
           SameShadow(shadow_run.done[i], shadow_run.done[j]) =>
               shadow_run.done[i].recipes = shadow_run.done[j].recipes
    /\ \A i \in 1..Len(shadow_run.done) :
           /\ ShadowTable(shadow_run.done[i].recipes, shadow_run.done[i].n_snapshots,
                          Len(shadow_run.done[i].obs.wires), 0..2)
           /\ ShadowTable(shadow_run.done[i].bits, shadow_run.done[i].n_snapshots,
                          Len(shadow_run.done[i].obs.wires), 0..1)

\* two invocations of two snapshots with the same seed on different circuits,
\* with different bits, and five draws from np.random: four snapshots and a
\* sample buffer in between
C22_Witness ==
    /\ Len(shadow_run.done) = 2
    /\ SameShadow(shadow_run.done[1], shadow_run.done[2])
    /\ shadow_run.done[1].n_snapshots = 2
    /\ shadow_run.done[1].circuit # shadow_run.done[2].circuit
    /\ shadow_run.done[1].bits # shadow_run.done[2].bits
    /\ shadow_run.np_random = 5 % 3

\* two invocations of classical_shadow with the same seed on the same
\* circuit, which prepares a computational basis state and rotates nothing
SameShadowOfBasisState(a, b) ==
    /\ SameShadow(a, b)
    /\ a.circuit = b.circuit
    /\ a.circuit.diagonalizing_gates = <<>>

\* C23 as stated: on a circuit that prepares a computational basis state, two
\* invocations of classical_shadow with the same seed return the same bits.
C23_ShadowBitsReproducible ==
    \A i, j \in 1..Len(shadow_run.done) :
        SameShadowOfBasisState(shadow_run.done[i], shadow_run.done[j]) =>
            shadow_run.done[i].bits = shadow_run.done[j].bits

\* C23, amended: on a circuit that prepares a computational basis state, two
\* invocations of classical_shadow with the same seed return the same bit at
\* every entry whose recipe is 2 (Pauli Z); the entries measured in the Pauli
\* X or Pauli Y basis may differ.
C23_ShadowBitsReproducibleInZ ==
    \A i, j \in 1..Len(shadow_run.done) :
        SameShadowOfBasisState(shadow_run.done[i], shadow_run.done[j]) =>
            \A t \in 1..Len(shadow_run.done[i].bits) :
                \A q \in 1..Len(shadow_run.done[i].bits[t]) :
                    shadow_run.done[i].recipes[t][q] = 2 =>
                        shadow_run.done[i].bits[t][q] = shadow_run.done[j].bits[t][q]

\* two invocations with the same seed on the circuit that flips the first
\* wire, measured first: its bit is 1 where the recipe is Z, and the bits of
\* the two invocations differ elsewhere
C23_Witness ==
    /\ Len(shadow_run.done) = 2
    /\ SameShadowOfBasisState(shadow_run.done[1], shadow_run.done[2])
    /\ shadow_run.done[1].circuit.operations # <<>>
    /\ shadow_run.done[1].obs.wires = wires
    /\ shadow_run.done[1].n_snapshots = 2
    /\ shadow_run.done[1].recipes[2][1] = 2
    /\ shadow_run.done[1].bits[2][1] = 1
    /\ shadow_run.done[1].bits # shadow_run.done[2].bits

\* the positions of the measured wires that the recipe row measures in the
\* Pauli X or Pauli Y basis, in wire order
RotatedPositions(recipes_t) ==
    SelectSeq([q \in 1..Len(recipes_t) |-> q], LAMBDA q : recipes_t[q] # 2)

\* the rotations that round t of the invocation d is to apply
RoundRotations(d, t) ==
    d.circuit.diagonalizing_gates
        \o [k \in 1..Len(RotatedPositions(d.recipes[t])) |->
               [name |-> "diagonalize",
                of |-> obs_list[d.recipes[t][RotatedPositions(d.recipes[t])[k]] + 1],
                wires |-> <<d.obs.wires[RotatedPositions(d.recipes[t])[k]]>>]]

\* the calls of the invocation d: the shots set to 1, T rounds of reset,
\* apply and one single-shot sample whose bits on the measured wires are
\* row t of the bits, the shots set back to T
ShadowRounds(d) ==
    /\ Len(d.trace) = 3 * d.n_snapshots + 2
    /\ d.trace[1] = Event("set_shots", <<1>>)
    /\ d.trace[Len(d.trace)] = Event("set_shots", <<d.n_snapshots>>)
    /\ Len(d.bits) = d.n_snapshots
    /\ \A t \in 1..d.n_snapshots :
           /\ d.trace[3 * t - 1] = Event("reset", <<>>)
           /\ d.trace[3 * t] =
                  Event("apply", <<d.circuit.operations, RoundRotations(d, t)>>)
           /\ d.trace[3 * t + 1].name = "generate_samples"
           /\ d.trace[3 * t + 1].args[1] = 1
           /\ d.bits[t] = [q \in 1..Len(d.obs.wires) |->
                  d.trace[3 * t + 1].args[2][map_wires(d.obs.wires)[q] + 1]]

\* C28: classical_shadow on a device with T shots makes T rounds; every round
\* resets the device, applies the operations of the circuit with the
\* diagonalizing gates of the circuit followed by those of the Pauli that the
\* recipe of the round names for each measured wire, draws one sample of one
\* shot and records its bits on the measured wires, in the order of the
\* wires; the shots of the device are 1 in the rounds and T again afterwards.
C28_ShadowProtocol ==
    /\ shadow_run.running =>
           /\ shots = 1
           /\ shadow_run.t <= shadow_run.n_snapshots
           /\ Len(shadow_run.trace) = 3 * shadow_run.t + 1
    /\ \A i \in 1..Len(shadow_run.done) : ShadowRounds(shadow_run.done[i])
    /\ (~shadow_run.running /\ shadow_run.done # <<>>) =>
           shots = shadow_run.done[Len(shadow_run.done)].n_snapshots

\* two rounds on the circuit with a diagonalizing gate, the wires measured
\* against the device order, and a sample whose bits differ
C28_Witness ==
    /\ ~shadow_run.running
    /\ Len(shadow_run.done) = 1
    /\ shots = 2
    /\ shadow_run.done[1].circuit.diagonalizing_gates # <<>>
    /\ map_wires(shadow_run.done[1].obs.wires) = <<1, 0>>
    /\ shadow_run.done[1].bits[1] = <<0, 1>>
    /\ shadow_run.done[1].trace[4].args[2] = <<1, 0>>

\* ------------------------------------------- claims on adjoint_jacobian
\* a tape that adjoint_jacobian does not support on a device with the shot
\* vector given
Rejected(t, shot_vector) ==
    \/ \E i \in 1..Len(t.measurements) :
           \/ t.measurements[i].kind # "expval"
           \/ t.measurements[i].obs.name = "Hamiltonian"
    \/ shot_vector # <<>>
    \/ \E o \in 1..Len(t.operations) :
           /\ t.operations[o].num_params > 1
           /\ ~(t.operations[o].name = "Rot" /\ ~t.operations[o].inverse)

\* C24: adjoint_jacobian raises QuantumFunctionError for a tape with a
\* measurement that is not an expectation, a Hamiltonian observable, a device
\* with a shot vector or an operation of several parameters that is not a
\* non-inverted Rot, and whenever it raises this error the device has not
\* been reset and the tape has not been executed: the execution counter and
\* the sample buffer are those of before the call.
C24_AdjointRejectsEagerly ==
    [][call'.op = "adjoint_jacobian" =>
          /\ Rejected(call'.args[1], _shot_vector)
                 => error'.type = "QuantumFunctionError"
          /\ error'.type = "QuantumFunctionError"
                 => /\ _num_executions' = _num_executions
                    /\ _samples' = _samples]_vars

\* ---------------------------------------------------- claims on the state
\* the state vector of the device, and the density matrix over the wires w
StateVector == ndarray(<<<<"basis", Pow2(Len(wires))>>>>, "state")
DensityMatrix(w) ==
    ndarray(<<<<"row", Pow2(Len(w))>>, <<"column", Pow2(Len(w))>>>>, "state")

CoversAllWires(w) == {w[i] : i \in 1..Len(w)} = {wires[d] : d \in 1..Len(wires)}

\* C25: access_state returns the state vector of the device when the wires
\* requested are empty or cover all device wires, and the reduced density
\* matrix over the wires requested only when they are a strict subset of the
\* device wires; it raises QuantumFunctionError when the device does not
\* declare returns_state or exposes no state.
C25_AccessState ==
    call.op = "access_state" =>
        LET capability == call.args[1]
            exposed == call.args[2]
            w == call.args[3]
        IN  IF ~capability \/ ~exposed THEN error.type = "QuantumFunctionError"
            ELSE /\ error = NoError
                 /\ call.res = IF w = <<>> \/ CoversAllWires(w) THEN StateVector
                                ELSE DensityMatrix(w)

\* C25 as the code has it: the state vector when no wires are requested, the
\* density matrix over the wires requested whenever some are, also when they
\* are all the device wires.
C25_AccessStateDensityMatrixOfAnyWires ==
    call.op = "access_state" =>
        LET capability == call.args[1]
            exposed == call.args[2]
            w == call.args[3]
        IN  IF ~capability \/ ~exposed THEN error.type = "QuantumFunctionError"
            ELSE /\ error = NoError
                 /\ call.res = IF w = <<>> THEN StateVector ELSE DensityMatrix(w)

\* all device wires were requested of a device that exposes its state
C25_Witness ==
    /\ call.op = "access_state"
    /\ call.args[1] /\ call.args[2]
    /\ Len(call.args[3]) = Len(wires)
    /\ call.res = DensityMatrix(wires)

\* ------------------------------------------------ claims on the tape
\* C26: statistics, _statistics_new and adjoint_jacobian, called any number
\* of times, leave every field of the measurement processes of the tape and
\* of their observables as it was.
C26_MeasurementsImmutable ==
    [][call'.op \in {"statistics", "_statistics_new", "adjoint_jacobian"}
          => tape'.measurements = tape.measurements]_vars

\* the measurements that statistics and _statistics_new have no branch for
UnsupportedKind(m) == m.kind \in {"process", "notvalid"}

\* C27: statistics and _statistics_new raise, or return a list with one
\* entry per measurement of the tape, in the order of the measurements, the
\* entry at position i being the value computed in this call for the
\* measurement at position i; a measurement of a kind they do not support
\* makes them raise QuantumFunctionError, it is never skipped.
C27_OneResultPerMeasurement ==
    call.op \in {"statistics", "_statistics_new"} =>
        LET measurements == call.args.measurements
        IN  /\ error = NoError =>
                   /\ Len(call.res) = Len(measurements)
                   /\ \A i \in 1..Len(call.res) : call.res[i].m = i
            /\ (\E i \in 1..Len(measurements) : UnsupportedKind(measurements[i]))
                   => error # NoError
            /\ (error # NoError /\ UnsupportedKind(measurements[error.at]))
                   => error.type = "QuantumFunctionError"

\* ------------------------------------------------------ claims on the bins
\* e = p(0) - p(1), for the column j of the binned probability p of one wire
DifferenceOfProbabilities(e, p, j) ==
    e[1] * p[0][j][2] = (p[0][j][1] - p[1][j][1]) * e[2]

\* the values of bin j of the samples res, in bin_size rows of one value
\* per bin, are those of the samples of the block of bin j
BlockOfSamples(res, o, shot_range, bin_size, j) ==
    \A r \in 1..bin_size :
        res[r][j + 1] =
            1 - 2 * _samples[RangeStart(shot_range) + j * bin_size
                                + r][map_wires(o.wires)[1] + 1]

\* C29: with a bin size, value j of every kind is computed from the samples
\* of the same block, the positions s1 + j*bin_size, ..., s1 + (j+1)*bin_size
\* - 1 of the buffer: the samples of a Pauli observable on one wire returned
\* for bin j are those of the block, its expectation value of bin j is their
\* mean, and this mean is p_j(0) - p_j(1) for the column p_j of the binned
\* probability of the wire.
C29_BinsAgreeAcrossKinds ==
    /\ call.op = "sample" /\ call.args[3] # None =>
           \A j \in 0..(NumBins(call.args[2], call.args[3]) - 1) :
               BlockOfSamples(call.res, call.args[1], call.args[2], call.args[3], j)
    /\ call.op = "expval" /\ shots # None /\ call.args[3] # None =>
           \A j \in 0..(NumBins(call.args[2], call.args[3]) - 1) :
               /\ SampledExpval(
                      ValueAt(call.res, call.args[2], call.args[3], j + 1),
                      BinPositions(RangeStart(call.args[2]), call.args[3], j),
                      call.args[1])
               /\ DifferenceOfProbabilities(
                      ValueAt(call.res, call.args[2], call.args[3], j + 1),
                      estimate_probability(call.args[1].wires, call.args[2],
                                           call.args[3]),
                      j)

\* ------------------------------------------- claims on process_samples
\* the number of axes of the array that sample(observable, shot_range,
\* bin_size) of the device returns: shots and wires for the raw samples,
\* shots for the samples of an observable, with bins one more
AxesOfSample(observable, bin_size) ==
    (IF no_observable_provided(observable) THEN 2 ELSE 1)
        + (IF bin_size = None THEN 0 ELSE 1)

\* C30: for the same sample buffer, wire order, shot_range and bin_size,
\* SampleMP.process_samples raises nothing where sample of the device
\* returns, and returns the array that sample(counts=False) returns, for no
\* observable with and without wires, a single-qubit PauliX, PauliY, PauliZ
\* or Hadamard, another observable with eigenvalues and a tensor product.
C30_ProcessSamplesAgreesWithSample ==
    call.op = "process_samples" =>
        /\ call.res.raised = "none"
        /\ call.res.ndim = AxesOfSample(call.args[1], call.args[3])
        /\ call.res.val = sample(call.args[1], call.args[2], call.args[3], FALSE)

====
